---- MODULE Spec2Model ----
(***************************************************************************)
(* ProjectHub PMO API (backend/server.py): the project, sub-document and    *)
(* template collections of the document store, the request handlers that   *)
(* read and write them, and the status workflow and role checks those      *)
(* handlers apply.                                                         *)
(*                                                                         *)
(* A handler is a coroutine: it runs without interruption between two      *)
(* datastore calls (its awaits).  Each handler is an operator taking the   *)
(* store, the clock and the request (with its position pc and its local    *)
(* variables) and returning the store and the request after one datastore  *)
(* call.  SpecRace interleaves the datastore calls of the requests in      *)
(* flight; the other specifications run a handler to completion in one     *)
(* step (requests served one at a time).                                   *)
(***************************************************************************)
EXTENDS Integers, Sequences, FiniteSets, TLC

VARIABLES users, projects, next_oid, now, resp, inflight,
          subdocs, templates, next_doc

vars == <<users, projects, next_oid, now, resp, inflight,
          subdocs, templates, next_doc>>

(***************************************************************************)
(* Bounds of the model.                                                    *)
(***************************************************************************)
\* sample projects seeded by startup (the source lists five)
NumSamples == 1
\* projects inserted by requests after startup
MaxCreated == 1
\* last value of the clock
MaxClock == 1
\* requests in flight at once (SpecRace)
MaxInflight == 2
\* entries taken from each sample list of init_sample_timeline_data (the
\* source lists three to eight)
NumSampleDocs == 1
\* sub-documents and templates inserted by requests after startup
MaxDocs == 1
\* template applications per behaviour of SpecApply
MaxApplies == 2
\* registrations accepted while fewer than this many users have registered
MaxRegistered == 1

(***************************************************************************)
(* Values.  The store keeps BSON values: an ObjectId and a string are      *)
(* never equal, whatever their text.                                       *)
(***************************************************************************)
Str(s) == [t |-> "str", v |-> s]
ObjectId(n) == [t |-> "ObjectId", v |-> "oid" \o ToString(n)]
\* str(ObjectId): the text of an ObjectId, as a string
StrOf(x) == [t |-> "str", v |-> x.v]
\* str(uuid.uuid4()): a fresh string
Uuid4(n) == Str("uuid" \o ToString(n))
\* str(uuid.uuid4()) for a sub-document or a template
DocId(n) == Str("doc" \o ToString(n))

\* UserRole
PROJECT_MANAGER == "project_manager"
TEAM_MEMBER == "team_member"
STAKEHOLDER == "stakeholder"
EXECUTIVE == "executive"
UserRole == {PROJECT_MANAGER, TEAM_MEMBER, STAKEHOLDER, EXECUTIVE}

\* ProjectStatus
ProjectStatus ==
    {"initiation", "planning", "execution", "monitoring", "closure",
     "completed", "cancelled"}

\* pwd_context.hash and pwd_context.verify: a hash verifies the password it
\* was made from and no other
get_password_hash(password) == "$2b$" \o password

\* the stored hash compared with the password as typed
verify_password_Plain(plain_password, hashed_password) ==
    hashed_password = plain_password

verify_password(plain_password, hashed_password) ==
    hashed_password = get_password_hash(plain_password)

\* the demo_users list of init_demo_users, in its order (full_name,
\* department, is_active and the dates are left out)
DemoUserList ==
    << [id |-> "pm", email |-> "pm@projecthub.com", username |-> "project_manager",
        role |-> PROJECT_MANAGER, password |-> get_password_hash("demo123")],
       [id |-> "exec", email |-> "exec@projecthub.com", username |-> "executive",
        role |-> EXECUTIVE, password |-> get_password_hash("demo123")],
       [id |-> "dev", email |-> "dev@projecthub.com", username |-> "developer",
        role |-> TEAM_MEMBER, password |-> get_password_hash("demo123")],
       [id |-> "sh", email |-> "stakeholder@projecthub.com", username |-> "stakeholder",
        role |-> STAKEHOLDER, password |-> get_password_hash("demo123")] >>

\* the users init_demo_users inserts into an empty collection
DemoUsers == {DemoUserList[n] : n \in DOMAIN DemoUserList}

\* User(**user): the response model has no password field (username, like
\* the other fields no handler reads, is left out)
UserModel(doc) == [f \in {"id", "email", "role"} |-> doc[f]]

\* the projects listed by init_sample_projects (name, status, stakeholders)
SampleProjectList ==
    << [name |-> "Customer Portal Redesign", status |-> "planning",
        budget |-> 250000, completion_percentage |-> 25,
        stakeholders |-> <<"Sarah Johnson", "Michael Chen", "UX Team", "Security Team">>],
       [name |-> "ERP System Integration", status |-> "execution",
        budget |-> 450000, completion_percentage |-> 65,
        stakeholders |-> <<"IT Director", "Finance Team", "Operations Manager", "External Vendor">>],
       [name |-> "Office Space Renovation", status |-> "initiation",
        budget |-> 150000, completion_percentage |-> 5, stakeholders |-> <<>>],
       [name |-> "Mobile App Development", status |-> "completed",
        budget |-> 320000, completion_percentage |-> 100, stakeholders |-> <<>>],
       [name |-> "Data Migration Project", status |-> "monitoring",
        budget |-> 280000, completion_percentage |-> 80, stakeholders |-> <<>>] >>

\* the templates listed by init_default_templates (name, type and the names
\* of the sample stakeholders of the register)
DefaultTemplateList ==
    << [name |-> "Standard Project Charter", template_type |-> "project_charter",
        sample_stakeholders |-> <<>>],
       [name |-> "Agile Project Charter", template_type |-> "project_charter",
        sample_stakeholders |-> <<>>],
       [name |-> "Standard Business Case", template_type |-> "business_case",
        sample_stakeholders |-> <<>>],
       [name |-> "Technology Investment Business Case", template_type |-> "business_case",
        sample_stakeholders |-> <<>>],
       [name |-> "Standard Stakeholder Register", template_type |-> "stakeholder_register",
        sample_stakeholders |-> <<"Project Sponsor", "End Users Representative">>],
       [name |-> "Comprehensive Risk Log", template_type |-> "risk_log",
        sample_stakeholders |-> <<>>],
       [name |-> "Project Feasibility Study", template_type |-> "feasibility_study",
        sample_stakeholders |-> <<>>] >>

\* the collections init_sample_timeline_data fills, in its order
SampleCollections ==
    <<"timeline_tasks", "milestones", "communication_plans", "quality_requirements",
      "procurement_items">>

Min(a, b) == IF a <= b THEN a ELSE b
Range(s) == {s[i] : i \in DOMAIN s}

(***************************************************************************)
(* The datastore calls the handlers make on one collection.                *)
(***************************************************************************)
\* a document matches an equality filter such as {"id": project_id}
Matches(doc, filter) ==
    \A f \in DOMAIN filter : f \in DOMAIN doc /\ doc[f] = filter[f]

\* find_one: no document ({}) or one matching document
FindOne(coll, filter) ==
    LET hits == {d \in coll : Matches(d, filter)}
    IN  IF hits = {} THEN {} ELSE {CHOOSE d \in hits : TRUE}

\* $set that also marks a project whose status is written as fully complete
SetFields_MarksComplete(doc, upd) ==
    [f \in (DOMAIN doc) \cup (DOMAIN upd) |->
        IF f \in DOMAIN upd THEN upd[f]
        ELSE IF f = "completion_percentage" /\ "status" \in DOMAIN upd THEN 100
        ELSE doc[f]]

\* $set: the document with the fields of upd written
SetFields(doc, upd) ==
    [f \in (DOMAIN doc) \cup (DOMAIN upd) |->
        IF f \in DOMAIN upd THEN upd[f] ELSE doc[f]]

\* update_one: the first matching document is updated; modified_count is 1
\* when the update changed it
UpdateOne(coll, filter, upd) ==
    LET hit == FindOne(coll, filter)
    IN  IF hit = {}
        THEN [coll |-> coll, modified_count |-> 0]
        ELSE LET old == CHOOSE d \in hit : TRUE
                 new == SetFields(old, upd)
             IN  [coll |-> (coll \ {old}) \cup {new},
                  modified_count |-> IF new = old THEN 0 ELSE 1]

\* find_one with {"$or": filters}
FindOneOr(coll, filters) ==
    LET hits == {d \in coll : \E f \in filters : Matches(d, f)}
    IN  IF hits = {} THEN {} ELSE {CHOOSE d \in hits : TRUE}

\* delete_one
DeleteOne(coll, filter) == coll \ FindOne(coll, filter)

\* update_one with {"$inc": {field: delta}}
IncOne(coll, filter, field, delta) ==
    LET hit == FindOne(coll, filter)
    IN  IF hit = {} THEN coll
        ELSE LET old == CHOOSE d \in hit : TRUE
             IN  (coll \ {old}) \cup {[old EXCEPT ![field] = @ + delta]}

(***************************************************************************)
(* Project documents and the Project response model.  Fields that no       *)
(* handler reads or writes after insertion (description, priority, dates,  *)
(* tags, created_at) are left out.                                         *)
(***************************************************************************)
\* the document insert_one stores: the dict plus a generated ObjectId _id
ProjectDoc(n, name, status, stakeholders, budget, owner, clock, completion) ==
    [_id |-> ObjectId(n), id |-> Uuid4(n), name |-> name, status |-> status,
     stakeholders |-> stakeholders, budget |-> budget,
     project_manager_id |-> owner, created_by |-> owner,
     updated_at |-> clock, completion_percentage |-> completion]

\* class Project: id is a str; a value of another type fails validation
ProjectValidates(doc) == doc.id.t = "str"

\* Project(**doc): the fields of the model (an extra _id is ignored)
Project(doc) == [f \in (DOMAIN doc) \ {"_id"} |-> doc[f]]

(***************************************************************************)
(* Requests and responses.                                                 *)
(***************************************************************************)
NoArg == [none |-> TRUE]

Request(op, user, project_id, arg) ==
    [op |-> op, user |-> user, project_id |-> project_id, arg |-> arg,
     pc |-> "start", project |-> {}, update_dict |-> NoArg,
     template |-> {}, created_count |-> 0, stats |-> NoArg,
     code |-> 0, detail |-> [msg |-> ""], body |-> {},
     \* observation, not a variable of the handler: the status stored when
     \* the request's status write ran ("" while it has not run)
     seen_at_write |-> ""]

\* the handler returns or raises: the response the caller receives
Respond(r, code, detail, body) ==
    [r EXCEPT !.pc = "done", !.code = code, !.detail = detail, !.body = body]

HTTPException(r, code, msg) == Respond(r, code, [msg |-> msg], {})

(***************************************************************************)
(* StatusWorkflow: the table of update_project_status.                     *)
(***************************************************************************)
valid_transitions ==
    [s \in ProjectStatus |->
        CASE s = "initiation" -> <<"planning", "cancelled">>
          [] s = "planning"   -> <<"execution", "initiation", "cancelled">>
          [] s = "execution"  -> <<"monitoring", "planning", "cancelled">>
          [] s = "monitoring" -> <<"closure", "execution", "cancelled">>
          [] s = "closure"    -> <<"completed", "monitoring", "cancelled">>
          [] s = "completed"  -> <<>>
          [] s = "cancelled"  -> <<"initiation">>]

\* valid_transitions.get(current_status, [])
ValidTransitionsGet(s) ==
    IF s \in DOMAIN valid_transitions THEN valid_transitions[s] ELSE <<>>

\* the write check with "or" for "and": a project manager who is not the
\* project's manager is refused
NotEnoughPermissions_OrForAnd(user, project) ==
    \/ user.role \notin {PROJECT_MANAGER, EXECUTIVE}
    \/ project.project_manager_id # user.id

\* the write check of update_project and delete_project
NotEnoughPermissions(user, project) ==
    /\ user.role \notin {PROJECT_MANAGER, EXECUTIVE}
    /\ project.project_manager_id # user.id

\* the role check with team_member added to the allowed roles
RoleNotAllowed_MemberAllowed(user) ==
    user.role \notin {PROJECT_MANAGER, EXECUTIVE, TEAM_MEMBER}

\* the role check of transition_project_phase, create_project_from_wizard
\* and of the charter, business case, template and feasibility study writes
RoleNotAllowed(user) == user.role \notin {PROJECT_MANAGER, EXECUTIVE}

(***************************************************************************)
(* The handlers.  db is the store (its collections and the counters of the *)
(* ids it generates), clock the value datetime.now() returns, r the        *)
(* request.  Each operator runs the handler from r.pc to its next          *)
(* datastore call (or to its response) and returns [db, r].                *)
(***************************************************************************)
Out(db, r) == [db |-> db, r |-> r]

\* minutes a token stays valid; the clock counts minutes
ACCESS_TOKEN_EXPIRE_MINUTES == 1440

\* jwt.encode of the claims sub and exp: only this server makes tokens, and
\* a token decodes to the claims it was made from
create_access_token(sub, clock) ==
    [sub |-> sub, exp |-> clock + ACCESS_TOKEN_EXPIRE_MINUTES]

\* the dependency of the authenticated routes: the user the token names
\* ({} when the token is expired, carries no sub or names no stored user)
get_current_user(db, clock, token) ==
    IF clock > token.exp \/ token.sub = ""
    THEN {}
    ELSE {UserModel(u) : u \in FindOne(db.users, [id |-> token.sub])}

\* the Token response of register and login
Token(user, clock) ==
    [access_token |-> create_access_token(user.id, clock), token_type |-> "bearer",
     user |-> UserModel(user)]

\* POST /api/auth/register
register(db, clock, r) ==
    LET user_data == r.arg.body
    IN  CASE r.pc = "start" ->
                IF user_data.role \notin UserRole
                THEN Out(db, HTTPException(r, 422, "validation error"))
                ELSE IF FindOneOr(db.users, {[email |-> user_data.email],
                                             [username |-> user_data.username]}) # {}
                THEN Out(db, HTTPException(r, 400, "Email or username already registered"))
                ELSE Out(db, [r EXCEPT !.pc = "insert_one"])
          [] r.pc = "insert_one" ->
                LET user_dict ==
                        [id |-> "user" \o ToString(Cardinality(db.users) + 1),
                         email |-> user_data.email, username |-> user_data.username,
                         role |-> user_data.role,
                         password |-> get_password_hash(user_data.password)]
                IN  Out([db EXCEPT !.users = @ \cup {user_dict}],
                        Respond(r, 200, [msg |-> "registered"], {Token(user_dict, clock)}))

\* POST /api/auth/login
login(db, clock, r) ==
    LET form_data == r.arg
        user == FindOneOr(db.users, {[email |-> form_data.username],
                                     [username |-> form_data.username]})
    IN  IF user = {} \/ \E u \in user : ~verify_password(form_data.password, u.password)
        THEN Out(db, HTTPException(r, 401, "Incorrect email/username or password"))
        ELSE Out(db, Respond(r, 200, [msg |-> "logged in"],
                             {Token(u, clock) : u \in user}))

\* GET /api/auth/me
get_current_user_info(db, clock, r) ==
    LET current_user == get_current_user(db, clock, r.arg.token)
    IN  IF current_user = {}
        THEN Out(db, HTTPException(r, 401, "Could not validate credentials"))
        ELSE Out(db, Respond(r, 200, [msg |-> "me"], current_user))

\* GET /api/auth/demo-users
get_demo_users(db, clock, r) ==
    Out(db, Respond(r, 200, [msg |-> "demo_users"],
            {[email |-> "pm@projecthub.com", password |-> "demo123",
              role |-> "Project Manager"],
             [email |-> "exec@projecthub.com", password |-> "demo123",
              role |-> "Executive"],
             [email |-> "dev@projecthub.com", password |-> "demo123",
              role |-> "Team Member"],
             [email |-> "stakeholder@projecthub.com", password |-> "demo123",
              role |-> "Stakeholder"]}))

\* POST /api/projects
create_project(db, clock, r) ==
    LET n == db.next_oid
        project_dict == ProjectDoc(n, r.arg.name, r.arg.status, r.arg.stakeholders,
                                   r.arg.budget, r.user.id, clock, 0)
    IN  Out([db EXCEPT !.projects = @ \cup {project_dict}, !.next_oid = n + 1],
            Respond(r, 200, [msg |-> "created"], {Project(project_dict)}))

\* POST /api/project-wizard (the wizard's own fields, which no handler reads
\* after insertion, are left out)
create_project_from_wizard(db, clock, r) ==
    IF RoleNotAllowed(r.user)
    THEN Out(db, HTTPException(r, 403, "Not enough permissions"))
    ELSE LET n == db.next_oid
             wizard_data == r.arg
             project_dict == ProjectDoc(n, wizard_data.project_name, "initiation",
                                        wizard_data.stakeholders, wizard_data.budget,
                                        r.user.id, clock, 0)
         IN  Out([db EXCEPT !.projects = @ \cup {project_dict}, !.next_oid = n + 1],
                 Respond(r, 200, [msg |-> "created"], {Project(project_dict)}))

\* GET /api/projects
get_projects(db, clock, r) ==
    LET Involved(d) ==
            \/ d.project_manager_id = r.user.id
            \/ r.user.id \in Range(d.stakeholders)
            \/ d.created_by = r.user.id
        BaseQuery(d) ==
            IF r.user.role \in {PROJECT_MANAGER, EXECUTIVE} THEN TRUE ELSE Involved(d)
        StatusFilter(d) == ("status" \in DOMAIN r.arg) => d.status = r.arg.status
        found == {d \in db.projects : BaseQuery(d) /\ StatusFilter(d)}
        \* project_doc["id"] = project_doc["_id"]; del project_doc["_id"]
        listed == {[f \in (DOMAIN d) \ {"_id"} |->
                        IF f = "id" THEN d._id ELSE d[f]] : d \in found}
    IN  IF \A d \in listed : ProjectValidates(d)
        THEN Out(db, Respond(r, 200, [msg |-> "list"], listed))
        ELSE Out(db, HTTPException(r, 500, "response validation error"))

\* round(completed_projects / max(total_projects, 1) * 100, 1), in tenths of
\* a percent (no quotient of counts below 16 lies halfway between tenths)
completion_rate(completed_projects, total_projects) ==
    LET den == IF total_projects > 1 THEN total_projects ELSE 1
    IN  (2000 * completed_projects + den) \div (2 * den)

\* the filter get_projects builds, in place of the dashboard's
user_filter_OfListing(current_user, d) ==
    \/ current_user.role \in {PROJECT_MANAGER, EXECUTIVE}
    \/ d.project_manager_id = current_user.id
    \/ current_user.id \in Range(d.stakeholders)
    \/ d.created_by = current_user.id

\* the documents the dashboard counts for a user that is no executive
user_filter(current_user, d) ==
    \/ d.project_manager_id = current_user.id
    \/ current_user.id \in Range(d.stakeholders)
    \/ d.created_by = current_user.id

\* GET /api/dashboard/stats: three count_documents calls, one per step
get_dashboard_stats(db, clock, r) ==
    LET base == {d \in db.projects : r.user.role = EXECUTIVE \/ user_filter(r.user, d)}
    IN  IF r.pc = "start"
        THEN Out(db, [r EXCEPT !.pc = "count_active",
                               !.stats = [total_projects |-> Cardinality(base)]])
        ELSE IF r.pc = "count_active"
        THEN LET active_projects ==
                     Cardinality({d \in base : d.status \notin {"completed", "cancelled"}})
             IN  Out(db, [r EXCEPT !.pc = "count_completed",
                                   !.stats = [total_projects |-> r.stats.total_projects,
                                              active_projects |-> active_projects]])
        ELSE \* r.pc = "count_completed"
             LET completed_projects == Cardinality({d \in base : d.status = "completed"})
             IN  Out(db, Respond(r, 200,
                     [total_projects |-> r.stats.total_projects,
                      active_projects |-> r.stats.active_projects,
                      completed_projects |-> completed_projects,
                      completion_rate |-> completion_rate(completed_projects,
                                                          r.stats.total_projects)],
                     {}))

\* PUT /api/projects/{project_id}/status
update_project_status(db, clock, r) ==
    IF r.pc = "start"
    THEN IF "status" \notin DOMAIN r.arg
         THEN Out(db, HTTPException(r, 400, "Status is required"))
         ELSE LET new_status == r.arg.status
                  project_doc == FindOne(db.projects, [_id |-> r.project_id])
              IN  IF project_doc = {}
                  THEN Out(db, HTTPException(r, 404, "Project not found"))
                  ELSE LET current_status == (CHOOSE d \in project_doc : TRUE).status
                           allowed == ValidTransitionsGet(current_status)
                       IN  IF new_status \notin Range(allowed)
                           THEN Out(db, Respond(r, 400,
                                    [msg |-> "Invalid status transition",
                                     current_status |-> current_status,
                                     allowed |-> allowed], {}))
                           ELSE Out(db, [r EXCEPT !.pc = "update_one",
                                                  !.project = project_doc])
    ELSE \* r.pc = "update_one"
         LET result == UpdateOne(db.projects, [_id |-> r.project_id],
                                 [status |-> r.arg.status, updated_at |-> clock])
         IN  IF result.modified_count = 0
             THEN Out(db, HTTPException(r, 404, "Project not found or not updated"))
             ELSE Out([db EXCEPT !.projects = result.coll],
                      Respond(r, 200, [msg |-> "Project status updated successfully",
                                       new_status |-> r.arg.status], {}))

\* GET /api/projects/{project_id}
get_project(db, clock, r) ==
    LET project == FindOne(db.projects, [id |-> r.project_id])
    IN  IF project = {}
        THEN Out(db, HTTPException(r, 404, "Project not found"))
        ELSE Out(db, Respond(r, 200, [msg |-> "project"],
                             {Project(d) : d \in project}))

\* class ProjectBase with every field of a stored project declared
ProjectBase_WithOwner ==
    {"name", "description", "status", "priority", "start_date", "end_date",
     "budget", "stakeholders", "tags", "project_manager_id", "created_by"}

\* class ProjectBase: the fields the model declares
ProjectBase ==
    {"name", "description", "status", "priority", "start_date", "end_date",
     "budget", "stakeholders", "tags"}

\* project_update.dict(exclude_unset=True): the declared fields the body
\* sets (a field the model does not declare is ignored)
ProjectUpdateDict(body) == [f \in (DOMAIN body) \cap ProjectBase |-> body[f]]

\* PUT /api/projects/{project_id}
update_project(db, clock, r) ==
    CASE r.pc = "start" ->
            LET project == FindOne(db.projects, [id |-> r.project_id])
            IN  IF project = {}
                THEN Out(db, HTTPException(r, 404, "Project not found"))
                ELSE IF NotEnoughPermissions(r.user, CHOOSE d \in project : TRUE)
                THEN Out(db, HTTPException(r, 403, "Not enough permissions"))
                ELSE Out(db, [r EXCEPT !.pc = "update_one", !.project = project,
                                !.update_dict =
                                    SetFields(ProjectUpdateDict(r.arg),
                                              [updated_at |-> clock])])
      [] r.pc = "update_one" ->
            LET result == UpdateOne(db.projects, [id |-> r.project_id],
                                    r.update_dict)
            IN  Out([db EXCEPT !.projects = result.coll], [r EXCEPT !.pc = "find_one"])
      [] r.pc = "find_one" ->
            LET updated_project == FindOne(db.projects, [id |-> r.project_id])
            IN  IF updated_project = {}
                \* updated_project["_id"] on None: TypeError, not handled
                THEN Out(db, HTTPException(r, 500, "Internal Server Error"))
                ELSE Out(db, Respond(r, 200, [msg |-> "project"],
                                     {Project(d) : d \in updated_project}))

\* delete_project that also deletes the sub-documents of the project
delete_project_Cascade(db, clock, r) ==
    IF r.pc = "start"
    THEN LET project == FindOne(db.projects, [id |-> r.project_id])
         IN  IF project = {}
             THEN Out(db, HTTPException(r, 404, "Project not found"))
             ELSE IF NotEnoughPermissions(r.user, CHOOSE d \in project : TRUE)
             THEN Out(db, HTTPException(r, 403, "Not enough permissions"))
             ELSE Out(db, [r EXCEPT !.pc = "delete_one", !.project = project])
    ELSE \* r.pc = "delete_one"
         Out([db EXCEPT !.projects = DeleteOne(@, [id |-> r.project_id]),
                        !.subdocs = [coll \in DOMAIN @ |->
                                       {d \in @[coll] : d.project_id # r.project_id}]],
             Respond(r, 200, [msg |-> "Project deleted successfully"], {}))

\* DELETE /api/projects/{project_id}
delete_project(db, clock, r) ==
    IF r.pc = "start"
    THEN LET project == FindOne(db.projects, [id |-> r.project_id])
         IN  IF project = {}
             THEN Out(db, HTTPException(r, 404, "Project not found"))
             ELSE IF NotEnoughPermissions(r.user, CHOOSE d \in project : TRUE)
             THEN Out(db, HTTPException(r, 403, "Not enough permissions"))
             ELSE Out(db, [r EXCEPT !.pc = "delete_one", !.project = project])
    ELSE \* r.pc = "delete_one"
         Out([db EXCEPT !.projects = DeleteOne(@, [id |-> r.project_id])],
             Respond(r, 200, [msg |-> "Project deleted successfully"], {}))

\* PUT /api/projects/{project_id}/transition/{new_phase}
transition_project_phase(db, clock, r) ==
    CASE r.pc = "start" ->
            IF RoleNotAllowed(r.user)
            THEN Out(db, HTTPException(r, 403, "Not enough permissions"))
            ELSE LET project == FindOne(db.projects, [id |-> r.project_id])
                 IN  IF project = {}
                     \* the 404 is raised inside the try and caught by
                     \* "except Exception": re-raised as 500
                     THEN Out(db, HTTPException(r, 500, "404: Project not found"))
                     ELSE Out(db, [r EXCEPT !.pc = "update_one", !.project = project])
      [] r.pc = "update_one" ->
            LET result == UpdateOne(db.projects, [id |-> r.project_id],
                                    [status |-> r.arg.new_phase, updated_at |-> clock])
            IN  IF result.modified_count = 0
                THEN Out(db, HTTPException(r, 500, "404: Project not found"))
                ELSE Out([db EXCEPT !.projects = result.coll],
                         [r EXCEPT !.pc = "find_one"])
      [] r.pc = "find_one" ->
            LET updated_project == FindOne(db.projects, [id |-> r.project_id])
            IN  IF updated_project = {}
                \* Project(**None): TypeError, caught and re-raised as 500
                THEN Out(db, HTTPException(r, 500, "TypeError"))
                ELSE Out(db, Respond(r, 200, [msg |-> "Project transitioned"],
                                     {Project(d) : d \in updated_project}))

\* module_status_mapping.get(module_name, [])
module_status_mapping(module_name) ==
    CASE module_name = "initiation" -> {"initiation"}
      [] module_name = "planning"   -> {"initiation", "planning"}
      [] module_name = "execution"  -> {"planning", "execution"}
      [] module_name = "monitoring" -> {"execution", "monitoring", "closure"}
      [] module_name = "closure"    -> {"closure", "completed"}
      [] OTHER                      -> {}

\* GET /api/projects/by-module/{module_name}
get_projects_by_module(db, clock, r) ==
    LET relevant_statuses == module_status_mapping(r.arg.module_name)
        Involved(d) ==
            \/ d.project_manager_id = r.user.id
            \/ r.user.id \in Range(d.stakeholders)
            \/ d.created_by = r.user.id
        BaseQuery(d) ==
            /\ d.status \in relevant_statuses
            /\ r.user.role \in {PROJECT_MANAGER, EXECUTIVE} \/ Involved(d)
        found == {d \in db.projects : BaseQuery(d)}
        \* project_doc["id"] = project_doc["_id"]; del project_doc["_id"]
        listed == {[f \in (DOMAIN d) \ {"_id"} |->
                        IF f = "id" THEN d._id ELSE d[f]] : d \in found}
    IN  IF relevant_statuses = {}
        \* the 400 is raised inside the try and caught by "except Exception"
        THEN Out(db, HTTPException(r, 500, "400: Invalid module name"))
        ELSE IF \A d \in listed : ProjectValidates(d)
        THEN Out(db, Respond(r, 200, [msg |-> "list"], listed))
        ELSE Out(db, HTTPException(r, 500, "response validation error"))

\* GET /api/projects/by-phase/{phase}
get_projects_by_phase(db, clock, r) ==
    IF r.arg.phase \notin ProjectStatus
    THEN Out(db, HTTPException(r, 422, "validation error"))
    ELSE Out(db, Respond(r, 200, [msg |-> "list"],
                         {Project(d) : d \in {e \in db.projects : e.status = r.arg.phase}}))

\* the previous phases with closure reached from monitoring alone, as in the
\* transition table
valid_previous_phases_AsTransitions ==
    [s \in ProjectStatus |->
        CASE s = "initiation" -> {}
          [] s = "planning"   -> {"initiation"}
          [] s = "execution"  -> {"planning"}
          [] s = "monitoring" -> {"execution"}
          [] s = "closure"    -> {"monitoring"}
          [] s = "completed"  -> {"closure"}
          [] s = "cancelled"  -> {"initiation", "planning", "execution"}]

\* valid_previous_phases of get_projects_available_for_phase
valid_previous_phases ==
    [s \in ProjectStatus |->
        CASE s = "initiation" -> {}
          [] s = "planning"   -> {"initiation"}
          [] s = "execution"  -> {"planning"}
          [] s = "monitoring" -> {"execution"}
          [] s = "closure"    -> {"monitoring", "execution"}
          [] s = "completed"  -> {"closure"}
          [] s = "cancelled"  -> {"initiation", "planning", "execution"}]

\* GET /api/projects/available-for-phase/{target_phase}
get_projects_available_for_phase(db, clock, r) ==
    IF r.arg.target_phase \notin ProjectStatus
    THEN Out(db, HTTPException(r, 422, "validation error"))
    ELSE LET previous_phases == valid_previous_phases[r.arg.target_phase]
             \* find({"status": {"$in": previous_phases}}).to_list(100)
             found == {e \in db.projects : e.status \in previous_phases}
             projects_list == IF Cardinality(found) <= 100 THEN found
                              ELSE CHOOSE l \in SUBSET found : Cardinality(l) = 100
         IN  Out(db, Respond(r, 200, [msg |-> "list"],
                             {Project(d) : d \in projects_list}))

(***************************************************************************)
(* Sub-documents.  A sub-document is stored in the collection of its       *)
(* variant with the fields id, project_id, created_by and updated_at; of   *)
(* the variant's own fields only those of a risk (probability, impact,     *)
(* risk_score) are kept.  A request names the project in its path          *)
(* (r.project_id) or in its body (r.arg.body.project_id), and the          *)
(* sub-document in its path (r.arg.doc_id).                                *)
(***************************************************************************)
Collections ==
    {"project_charters", "business_cases", "stakeholders", "wbs_tasks", "risks",
     "budget_items", "communication_plans", "quality_requirements",
     "procurement_items", "timeline_tasks", "milestones", "feasibility_studies"}

\* RiskProbability, RiskImpact
RiskLevels == {"very_low", "low", "medium", "high", "very_high"}

\* the fields the Base model of a collection declares
BaseFields(coll) ==
    IF coll = "risks" THEN {"project_id", "probability", "impact"}
    ELSE {"project_id"}

\* the body passes the validation of the Base model: the required fields are
\* there and an enum field holds one of the enum's values
BodyValidates(coll, body) ==
    /\ BaseFields(coll) \subseteq DOMAIN body
    /\ coll = "risks" => body.probability \in RiskLevels /\ body.impact \in RiskLevels

\* Base(**body).dict(): the declared fields (a field the model does not
\* declare is ignored)
Dict(coll, body) == [f \in (DOMAIN body) \cap BaseFields(coll) |-> body[f]]

NoFields == [f \in {} |-> 0]

\* insert_one replacing the documents the collection holds for the project
InsertOne_ReplaceForProject(db, coll, doc) ==
    [db EXCEPT !.subdocs[coll] =
                  {d \in @ : d.project_id # doc.project_id} \cup {doc},
               !.next_doc = @ + 1]

\* insert_one into a sub-document collection
InsertOne(db, coll, doc) ==
    [db EXCEPT !.subdocs[coll] = @ \cup {doc}, !.next_doc = @ + 1]

\* the dict a create handler inserts
NewDocument(db, coll, body, project_id, extra, user, clock) ==
    SetFields(SetFields(Dict(coll, body), extra),
              [id |-> DocId(db.next_doc), project_id |-> project_id,
               created_by |-> user.id, updated_at |-> clock])

\* probability_score / impact_score .get(level, 3)
probability_score(level) ==
    CASE level = "very_low"  -> 1
      [] level = "low"       -> 2
      [] level = "medium"    -> 3
      [] level = "high"      -> 4
      [] level = "very_high" -> 5
      [] OTHER               -> 3

impact_score(level) == probability_score(level)

\* the score as the sum of the two ordinals
calculated_risk_score_Sum(body) ==
    probability_score(body.probability) + impact_score(body.impact)

\* prob_score * imp_score
calculated_risk_score(body) ==
    probability_score(body.probability) * impact_score(body.impact)

\* create: role check, then parent lookup, then insert
CreateGated(coll, db, clock, r) ==
    CASE r.pc = "start" ->
            IF ~BodyValidates(coll, r.arg.body)
            THEN Out(db, HTTPException(r, 422, "validation error"))
            ELSE IF RoleNotAllowed(r.user)
            THEN Out(db, HTTPException(r, 403, "Not enough permissions"))
            ELSE LET project == FindOne(db.projects, [id |-> r.arg.body.project_id])
                 IN  IF project = {}
                     THEN Out(db, HTTPException(r, 404, "Project not found"))
                     ELSE Out(db, [r EXCEPT !.pc = "insert_one", !.project = project])
      [] r.pc = "insert_one" ->
            LET doc == NewDocument(db, coll, r.arg.body, r.arg.body.project_id,
                                   NoFields, r.user, clock)
            IN  Out(InsertOne(db, coll, doc), Respond(r, 200, [msg |-> "created"], {doc}))

\* create: parent lookup (project_id of the path or of the body), then insert
CreateChecked(coll, project_id, extra, db, clock, r) ==
    CASE r.pc = "start" ->
            IF ~BodyValidates(coll, r.arg.body)
            THEN Out(db, HTTPException(r, 422, "validation error"))
            ELSE LET project == FindOne(db.projects, [id |-> project_id])
                 IN  IF project = {}
                     THEN Out(db, HTTPException(r, 404, "Project not found"))
                     ELSE Out(db, [r EXCEPT !.pc = "insert_one", !.project = project])
      [] r.pc = "insert_one" ->
            LET doc == NewDocument(db, coll, r.arg.body, project_id, extra, r.user, clock)
            IN  Out(InsertOne(db, coll, doc), Respond(r, 200, [msg |-> "created"], {doc}))

\* create: insert under the project_id of the path, no lookup
CreateUnchecked(coll, db, clock, r) ==
    IF ~BodyValidates(coll, r.arg.body)
    THEN Out(db, HTTPException(r, 422, "validation error"))
    ELSE LET doc == NewDocument(db, coll, r.arg.body, r.project_id, NoFields,
                                r.user, clock)
         IN  Out(InsertOne(db, coll, doc), Respond(r, 200, [msg |-> "created"], {doc}))

\* read: the one sub-document of the project, 404 without one
GetOne(coll, what, db, r) ==
    LET doc == FindOne(db.subdocs[coll], [project_id |-> r.project_id])
    IN  IF doc = {}
        THEN Out(db, HTTPException(r, 404, what \o " not found"))
        ELSE Out(db, Respond(r, 200, [msg |-> "document"], doc))

\* read: the sub-documents of the project, no lookup of the project
GetList(coll, db, r) ==
    Out(db, Respond(r, 200, [msg |-> "list"],
                    {d \in db.subdocs[coll] : d.project_id = r.project_id}))

\* read: parent lookup, then the sub-documents of the project
GetListChecked(coll, db, r) ==
    CASE r.pc = "start" ->
            LET project == FindOne(db.projects, [id |-> r.project_id])
            IN  IF project = {}
                THEN Out(db, HTTPException(r, 404, "Project not found"))
                ELSE Out(db, [r EXCEPT !.pc = "find", !.project = project])
      [] r.pc = "find" -> GetList(coll, db, r)

\* the filter of the lookup an update or delete starts with: the id, or the
\* id and the project_id of the path
LookupFilter(keyed, r) ==
    IF keyed THEN [id |-> r.arg.doc_id, project_id |-> r.project_id]
    ELSE [id |-> r.arg.doc_id]

\* update: lookup, role check when gated, $set of the body's dict, read back
UpdateById(coll, what, gated, keyed, extra, db, clock, r) ==
    CASE r.pc = "start" ->
            IF ~BodyValidates(coll, r.arg.body)
            THEN Out(db, HTTPException(r, 422, "validation error"))
            ELSE IF FindOne(db.subdocs[coll], LookupFilter(keyed, r)) = {}
            THEN Out(db, HTTPException(r, 404, what \o " not found"))
            ELSE IF gated /\ RoleNotAllowed(r.user)
            THEN Out(db, HTTPException(r, 403, "Not enough permissions"))
            ELSE Out(db, [r EXCEPT !.pc = "update_one",
                            !.update_dict =
                                SetFields(SetFields(Dict(coll, r.arg.body), extra),
                                          [updated_at |-> clock])])
      [] r.pc = "update_one" ->
            LET result == UpdateOne(db.subdocs[coll], [id |-> r.arg.doc_id],
                                    r.update_dict)
            IN  Out([db EXCEPT !.subdocs[coll] = result.coll],
                    [r EXCEPT !.pc = "find_one"])
      [] r.pc = "find_one" ->
            LET updated == FindOne(db.subdocs[coll], [id |-> r.arg.doc_id])
            IN  IF updated = {}
                \* updated["_id"] on None: TypeError, not handled
                THEN Out(db, HTTPException(r, 500, "Internal Server Error"))
                ELSE Out(db, Respond(r, 200, [msg |-> "document"], updated))

\* delete: lookup, then delete_one by id
DeleteById(coll, what, keyed, db, r) ==
    CASE r.pc = "start" ->
            IF FindOne(db.subdocs[coll], LookupFilter(keyed, r)) = {}
            THEN Out(db, HTTPException(r, 404, what \o " not found"))
            ELSE Out(db, [r EXCEPT !.pc = "delete_one"])
      [] r.pc = "delete_one" ->
            Out([db EXCEPT !.subdocs[coll] = DeleteOne(@, [id |-> r.arg.doc_id])],
                Respond(r, 200, [msg |-> what \o " deleted successfully"], {}))

\* POST /api/project-charter
create_project_charter(db, clock, r) == CreateGated("project_charters", db, clock, r)

\* GET /api/project-charter/project/{project_id}
get_project_charter(db, clock, r) == GetOne("project_charters", "Project charter", db, r)

\* PUT /api/project-charter/{charter_id}
update_project_charter(db, clock, r) ==
    UpdateById("project_charters", "Project charter", TRUE, FALSE, NoFields, db, clock, r)

\* POST /api/business-case
create_business_case(db, clock, r) == CreateGated("business_cases", db, clock, r)

\* GET /api/business-case/project/{project_id}
get_business_case(db, clock, r) == GetOne("business_cases", "Business case", db, r)

\* POST /api/stakeholders
create_stakeholder(db, clock, r) ==
    CreateChecked("stakeholders", r.arg.body.project_id, NoFields, db, clock, r)

\* GET /api/stakeholders/project/{project_id}
get_project_stakeholders(db, clock, r) == GetList("stakeholders", db, r)

\* PUT /api/stakeholders/{stakeholder_id}
update_stakeholder(db, clock, r) ==
    UpdateById("stakeholders", "Stakeholder", FALSE, FALSE, NoFields, db, clock, r)

\* DELETE /api/stakeholders/{stakeholder_id}
delete_stakeholder(db, clock, r) == DeleteById("stakeholders", "Stakeholder", FALSE, db, r)

\* GET /api/projects/{project_id}/wbs
get_project_wbs(db, clock, r) == GetListChecked("wbs_tasks", db, r)

\* GET /api/projects/{project_id}/risks: the score of each risk is computed
\* again for the response
get_project_risks_by_path(db, clock, r) ==
    CASE r.pc = "start" ->
            LET project == FindOne(db.projects, [id |-> r.project_id])
            IN  IF project = {}
                THEN Out(db, HTTPException(r, 404, "Project not found"))
                ELSE Out(db, [r EXCEPT !.pc = "find", !.project = project])
      [] r.pc = "find" ->
            Out(db, Respond(r, 200, [msg |-> "list"],
                    {SetFields(d, [risk_score |-> calculated_risk_score(d)])
                        : d \in {e \in db.subdocs["risks"] : e.project_id = r.project_id}}))

\* POST /api/projects/{project_id}/risks
create_risk_by_path(db, clock, r) ==
    CreateChecked("risks", r.project_id,
                  IF BodyValidates("risks", r.arg.body)
                  THEN [risk_score |-> calculated_risk_score(r.arg.body)]
                  ELSE NoFields,
                  db, clock, r)

\* GET /api/projects/{project_id}/budget
get_project_budget(db, clock, r) == GetListChecked("budget_items", db, r)

\* POST /api/projects/{project_id}/budget
create_budget_item(db, clock, r) ==
    CreateChecked("budget_items", r.project_id, NoFields, db, clock, r)

\* POST /api/risks
create_risk(db, clock, r) ==
    CreateChecked("risks", r.arg.body.project_id,
                  IF BodyValidates("risks", r.arg.body)
                  THEN [risk_score |-> calculated_risk_score(r.arg.body)]
                  ELSE NoFields,
                  db, clock, r)

\* GET /api/risks/project/{project_id}
get_project_risks(db, clock, r) == GetList("risks", db, r)

\* the update of a risk with the stored score left as it is
update_risk_ScoreKept(db, clock, r) ==
    UpdateById("risks", "Risk", FALSE, FALSE, NoFields, db, clock, r)

\* PUT /api/risks/{risk_id}
update_risk(db, clock, r) ==
    UpdateById("risks", "Risk", FALSE, FALSE,
               IF BodyValidates("risks", r.arg.body)
               THEN [risk_score |-> calculated_risk_score(r.arg.body)]
               ELSE NoFields,
               db, clock, r)

\* GET /api/projects/{project_id}/timeline/tasks
get_project_timeline_tasks(db, clock, r) == GetList("timeline_tasks", db, r)

\* POST /api/projects/{project_id}/timeline/tasks
create_timeline_task(db, clock, r) == CreateUnchecked("timeline_tasks", db, clock, r)

\* PUT /api/projects/{project_id}/timeline/tasks/{task_id}
update_timeline_task(db, clock, r) ==
    UpdateById("timeline_tasks", "Timeline task", FALSE, TRUE, NoFields, db, clock, r)

\* GET /api/projects/{project_id}/milestones (no response model)
get_project_milestones_untyped(db, clock, r) == GetList("milestones", db, r)

\* GET /api/projects/{project_id}/timeline/milestones
get_project_milestones(db, clock, r) == GetList("milestones", db, r)

\* POST /api/projects/{project_id}/timeline/milestones
create_milestone(db, clock, r) == CreateUnchecked("milestones", db, clock, r)

\* GET /api/projects/{project_id}/communication-plans
get_project_communication_plans(db, clock, r) == GetList("communication_plans", db, r)

\* GET /api/projects/{project_id}/quality-requirements
get_project_quality_requirements(db, clock, r) == GetList("quality_requirements", db, r)

\* GET /api/projects/{project_id}/procurement-items
get_project_procurement_items(db, clock, r) == GetList("procurement_items", db, r)

\* POST /api/feasibility-study
create_feasibility_study(db, clock, r) == CreateGated("feasibility_studies", db, clock, r)

\* GET /api/feasibility-study/project/{project_id}
get_feasibility_study(db, clock, r) ==
    GetOne("feasibility_studies", "Feasibility study", db, r)

\* PUT /api/feasibility-study/{study_id}
update_feasibility_study(db, clock, r) ==
    UpdateById("feasibility_studies", "Feasibility study", TRUE, FALSE, NoFields,
               db, clock, r)

(***************************************************************************)
(* Templates.  A template document keeps id, name, template_type,          *)
(* usage_count, created_by and, of template_data, the names of its         *)
(* sample_stakeholders.                                                    *)
(***************************************************************************)
TemplateType ==
    {"project_charter", "business_case", "stakeholder_register", "risk_log",
     "feasibility_study"}

TemplateDoc(n, name, template_type, sample_stakeholders, owner) ==
    [id |-> DocId(n), name |-> name, template_type |-> template_type,
     sample_stakeholders |-> sample_stakeholders, usage_count |-> 0,
     created_by |-> owner]

\* POST /api/templates
create_template(db, clock, r) ==
    IF r.arg.body.template_type \notin TemplateType
    THEN Out(db, HTTPException(r, 422, "validation error"))
    ELSE IF RoleNotAllowed(r.user)
    THEN Out(db, HTTPException(r, 403, "Not enough permissions"))
    ELSE LET template_dict ==
                 TemplateDoc(db.next_doc, r.arg.body.name, r.arg.body.template_type,
                             r.arg.body.sample_stakeholders, r.user.id)
         IN  Out([db EXCEPT !.templates = @ \cup {template_dict}, !.next_doc = @ + 1],
                 Respond(r, 200, [msg |-> "created"], {template_dict}))

\* use_template with the count read by find_one written back plus one
use_template_ReadThenWrite(db, clock, r) ==
    CASE r.pc = "start" ->
            LET template == FindOne(db.templates, [id |-> r.arg.template_id])
            IN  IF template = {}
                THEN Out(db, HTTPException(r, 404, "Template not found"))
                ELSE Out(db, [r EXCEPT !.pc = "update_one", !.template = template])
      [] r.pc = "update_one" ->
            LET read == CHOOSE t \in r.template : TRUE
                result == UpdateOne(db.templates, [id |-> r.arg.template_id],
                                    [usage_count |-> read.usage_count + 1])
            IN  Out([db EXCEPT !.templates = result.coll],
                    Respond(r, 200, [msg |-> "Template usage recorded"], {}))

\* POST /api/templates/{template_id}/use
use_template(db, clock, r) ==
    CASE r.pc = "start" ->
            IF FindOne(db.templates, [id |-> r.arg.template_id]) = {}
            THEN Out(db, HTTPException(r, 404, "Template not found"))
            ELSE Out(db, [r EXCEPT !.pc = "update_one"])
      [] r.pc = "update_one" ->
            Out([db EXCEPT !.templates = IncOne(@, [id |-> r.arg.template_id],
                                                "usage_count", 1)],
                Respond(r, 200, [msg |-> "Template usage recorded"], {}))

\* the collection apply_template_to_project writes for a template type
AppliedCollection(template_type) ==
    IF template_type = "project_charter" THEN "project_charters" ELSE "business_cases"

\* the singleton is inserted whatever find_one returned
WriteFor_AlwaysInsert(existing) == "insert_one"

\* if existing_charter / if existing_case: update the document found, else
\* insert one
WriteFor(existing) == IF existing # {} THEN "update_one" ELSE "insert_one"

\* POST /api/projects/{project_id}/apply-template/{template_id}
apply_template_to_project(db, clock, r) ==
    CASE r.pc = "start" ->
            LET project == FindOne(db.projects, [id |-> r.project_id])
            IN  IF project = {}
                THEN Out(db, HTTPException(r, 404, "Project not found"))
                ELSE Out(db, [r EXCEPT !.pc = "find_template", !.project = project])
      [] r.pc = "find_template" ->
            LET template == FindOne(db.templates, [id |-> r.arg.template_id])
            IN  IF template = {}
                THEN Out(db, HTTPException(r, 404, "Template not found"))
                ELSE IF RoleNotAllowed(r.user)
                THEN Out(db, HTTPException(r, 403, "Not enough permissions"))
                ELSE LET t == CHOOSE x \in template : TRUE
                     IN  Out(db, [r EXCEPT
                            !.template = template,
                            !.pc = CASE t.template_type \in {"project_charter", "business_case"}
                                          -> "find_existing"
                                     [] t.template_type = "stakeholder_register"
                                        /\ Len(t.sample_stakeholders) > 0
                                          -> "insert_stakeholder"
                                     [] OTHER -> "inc"])
      [] r.pc = "find_existing" ->
            LET t == CHOOSE x \in r.template : TRUE
                existing == FindOne(db.subdocs[AppliedCollection(t.template_type)],
                                    [project_id |-> r.project_id])
            IN  Out(db, [r EXCEPT !.pc = WriteFor(existing)])
      [] r.pc = "update_one" ->
            LET t == CHOOSE x \in r.template : TRUE
                coll == AppliedCollection(t.template_type)
                result == UpdateOne(db.subdocs[coll], [project_id |-> r.project_id],
                                    [project_id |-> r.project_id, updated_at |-> clock])
            IN  Out([db EXCEPT !.subdocs[coll] = result.coll], [r EXCEPT !.pc = "inc"])
      [] r.pc = "insert_one" ->
            LET t == CHOOSE x \in r.template : TRUE
                doc == [id |-> DocId(db.next_doc), project_id |-> r.project_id,
                        created_by |-> r.user.id, updated_at |-> clock]
            IN  Out(InsertOne(db, AppliedCollection(t.template_type), doc),
                    [r EXCEPT !.pc = "inc"])
      [] r.pc = "insert_stakeholder" ->
            LET t == CHOOSE x \in r.template : TRUE
                stakeholder_doc ==
                    [id |-> DocId(db.next_doc), project_id |-> r.project_id,
                     created_by |-> r.user.id, updated_at |-> clock]
                created_count == r.created_count + 1
            IN  Out(InsertOne(db, "stakeholders", stakeholder_doc),
                    [r EXCEPT !.created_count = created_count,
                              !.pc = IF created_count < Len(t.sample_stakeholders)
                                     THEN "insert_stakeholder" ELSE "inc"])
      [] r.pc = "inc" ->
            Out([db EXCEPT !.templates = IncOne(@, [id |-> r.arg.template_id],
                                                "usage_count", 1)],
                Respond(r, 200, [msg |-> "Template applied successfully",
                                 created_count |-> r.created_count], {}))

\* one datastore call of the handler of r
Step(db, clock, r) ==
    CASE r.op = "register"                 -> register(db, clock, r)
      [] r.op = "login"                    -> login(db, clock, r)
      [] r.op = "get_current_user_info"    -> get_current_user_info(db, clock, r)
      [] r.op = "get_demo_users"           -> get_demo_users(db, clock, r)
      [] r.op = "create_project"           -> create_project(db, clock, r)
      [] r.op = "create_project_from_wizard"
                                           -> create_project_from_wizard(db, clock, r)
      [] r.op = "get_projects"             -> get_projects(db, clock, r)
      [] r.op = "get_dashboard_stats"      -> get_dashboard_stats(db, clock, r)
      [] r.op = "update_project_status"    -> update_project_status(db, clock, r)
      [] r.op = "get_project"              -> get_project(db, clock, r)
      [] r.op = "update_project"           -> update_project(db, clock, r)
      [] r.op = "delete_project"           -> delete_project(db, clock, r)
      [] r.op = "transition_project_phase" -> transition_project_phase(db, clock, r)
      [] r.op = "get_projects_by_module"   -> get_projects_by_module(db, clock, r)
      [] r.op = "get_projects_by_phase"    -> get_projects_by_phase(db, clock, r)
      [] r.op = "get_projects_available_for_phase"
                                           -> get_projects_available_for_phase(db, clock, r)
      [] r.op = "create_project_charter"   -> create_project_charter(db, clock, r)
      [] r.op = "get_project_charter"      -> get_project_charter(db, clock, r)
      [] r.op = "update_project_charter"   -> update_project_charter(db, clock, r)
      [] r.op = "create_business_case"     -> create_business_case(db, clock, r)
      [] r.op = "get_business_case"        -> get_business_case(db, clock, r)
      [] r.op = "create_stakeholder"       -> create_stakeholder(db, clock, r)
      [] r.op = "get_project_stakeholders" -> get_project_stakeholders(db, clock, r)
      [] r.op = "update_stakeholder"       -> update_stakeholder(db, clock, r)
      [] r.op = "delete_stakeholder"       -> delete_stakeholder(db, clock, r)
      [] r.op = "get_project_wbs"          -> get_project_wbs(db, clock, r)
      [] r.op = "get_project_risks_by_path" -> get_project_risks_by_path(db, clock, r)
      [] r.op = "create_risk_by_path"      -> create_risk_by_path(db, clock, r)
      [] r.op = "get_project_budget"       -> get_project_budget(db, clock, r)
      [] r.op = "create_budget_item"       -> create_budget_item(db, clock, r)
      [] r.op = "create_risk"              -> create_risk(db, clock, r)
      [] r.op = "get_project_risks"        -> get_project_risks(db, clock, r)
      [] r.op = "update_risk"              -> update_risk(db, clock, r)
      [] r.op = "get_project_timeline_tasks" -> get_project_timeline_tasks(db, clock, r)
      [] r.op = "create_timeline_task"     -> create_timeline_task(db, clock, r)
      [] r.op = "update_timeline_task"     -> update_timeline_task(db, clock, r)
      [] r.op = "get_project_milestones_untyped"
                                           -> get_project_milestones_untyped(db, clock, r)
      [] r.op = "get_project_milestones"   -> get_project_milestones(db, clock, r)
      [] r.op = "create_milestone"         -> create_milestone(db, clock, r)
      [] r.op = "get_project_communication_plans"
                                           -> get_project_communication_plans(db, clock, r)
      [] r.op = "get_project_quality_requirements"
                                           -> get_project_quality_requirements(db, clock, r)
      [] r.op = "get_project_procurement_items"
                                           -> get_project_procurement_items(db, clock, r)
      [] r.op = "create_feasibility_study" -> create_feasibility_study(db, clock, r)
      [] r.op = "get_feasibility_study"    -> get_feasibility_study(db, clock, r)
      [] r.op = "update_feasibility_study" -> update_feasibility_study(db, clock, r)
      [] r.op = "create_template"          -> create_template(db, clock, r)
      [] r.op = "use_template"             -> use_template(db, clock, r)
      [] r.op = "apply_template_to_project" -> apply_template_to_project(db, clock, r)

\* the handler of r run to its response with no other request in between
RECURSIVE Run(_, _, _)
Run(db, clock, r) ==
    IF r.pc = "done" THEN Out(db, r)
    ELSE CHOOSE out \in {Run(s.db, clock, s.r) : s \in {Step(db, clock, r)}} : TRUE

(***************************************************************************)
(* The state machine.                                                      *)
(***************************************************************************)
DB ==
    [users |-> users, projects |-> projects, next_oid |-> next_oid,
     subdocs |-> subdocs, templates |-> templates, next_doc |-> next_doc]

\* what the caller of a completed request holds: the request and its response
Response(r) ==
    [op |-> r.op, user |-> r.user, project_id |-> r.project_id, arg |-> r.arg,
     code |-> r.code, detail |-> r.detail, body |-> r.body]

NoUser == [id |-> "", email |-> "", role |-> ""]
Idle == [Request("idle", NoUser, Str(""), NoArg) EXCEPT !.pc = "idle"]

\* init_sample_projects: the sample projects, owned and created by the PM
\* demo user
init_sample_projects ==
    LET pm_id == (CHOOSE u \in DemoUsers : u.email = "pm@projecthub.com").id
    IN  { LET sp == SampleProjectList[n]
          IN  ProjectDoc(n, sp.name, sp.status, sp.stakeholders, sp.budget,
                         pm_id, 0, sp.completion_percentage)
          : n \in 1..Min(NumSamples, Len(SampleProjectList)) }

\* init_default_templates: the default templates, created by "system"
init_default_templates ==
    { LET t == DefaultTemplateList[n]
      IN  TemplateDoc(n, t.name, t.template_type, t.sample_stakeholders, "system")
      : n \in 1..Len(DefaultTemplateList) }

\* the field a sample entry is looked up by, with its project_id, before it
\* is inserted (name, requirement_name, item_name, or stakeholder_group with
\* information_type)
SampleName(k) == "sample " \o ToString(k)

\* init_sample_timeline_data: for each of the first two projects, the first
\* NumSampleDocs entries of each sample list, created by the project's creator
init_sample_timeline_data ==
    LET seeded == Min(Cardinality(init_sample_projects), 2)
        Number(p, c, k) ==
            Len(DefaultTemplateList)
              + ((p - 1) * Len(SampleCollections) + (c - 1)) * NumSampleDocs + k
    IN  [coll \in Collections |->
            { [id |-> DocId(Number(p, c, k)), project_id |-> Uuid4(p),
               name |-> SampleName(k),
               created_by |-> (CHOOSE d \in init_sample_projects : d.id = Uuid4(p)).created_by,
               updated_at |-> 0]
              : <<p, c, k>> \in {x \in (1..seeded) \X (1..Len(SampleCollections))
                                            \X (1..NumSampleDocs)
                                    : SampleCollections[x[2]] = coll} }]

\* documents inserted into the sub-document and template collections so far
Inserted(subs, tpls) ==
    Cardinality(tpls) + Cardinality(UNION {subs[coll] : coll \in Collections})

\* the store after startup_event on an empty database
Init ==
    /\ users = DemoUsers
    /\ projects = init_sample_projects
    /\ next_oid = Cardinality(init_sample_projects) + 1
    /\ templates = init_default_templates
    /\ subdocs = init_sample_timeline_data
    /\ next_doc = Inserted(init_sample_timeline_data, init_default_templates) + 1
    /\ now = 0
    /\ resp = Response(Respond(Request("startup_event", NoUser, Str(""), NoArg),
                               200, [msg |-> "started"], {}))
    /\ inflight = [i \in 1..MaxInflight |-> Idle]

\* time passes
Tick ==
    /\ now < MaxClock
    /\ now' = now + 1
    /\ UNCHANGED <<users, projects, next_oid, resp, inflight,
                   subdocs, templates, next_doc>>

\* a request served from arrival to response
Serve(r) ==
    \E out \in {Run(DB, now, r)} :
        /\ projects' = out.db.projects
        /\ next_oid' = out.db.next_oid
        /\ subdocs' = out.db.subdocs
        /\ templates' = out.db.templates
        /\ next_doc' = out.db.next_doc
        /\ resp' = Response(out.r)
        /\ users' = out.db.users
        /\ UNCHANGED <<now, inflight>>

(***************************************************************************)
(* The requests the callers send.                                          *)
(***************************************************************************)
User(id) == UserModel(CHOOSE u \in users : u.id = id)

\* the callers: the stored users as get_current_user returns them
Callers == {UserModel(u) : u \in users}

\* project ids of stored projects, as the API hands them out
StoredIds == {d.id : d \in projects}
\* the text of a stored project's _id
StoredOidTexts == {StrOf(d._id) : d \in projects}
\* an id of no project
MissingId == Str("missing")

\* ProjectCreate bodies
CreateBodies ==
    {[name |-> "Project X", status |-> s, stakeholders |-> <<>>, budget |-> 0]
        : s \in {"initiation", "planning"}}

\* the name stored for project_id, which an update sends back
StoredName(project_id) ==
    LET names == {d.name : d \in {e \in projects : e.id = project_id}}
    IN  IF names = {} THEN "Project X" ELSE CHOOSE n \in names : TRUE

\* ProjectBase bodies of an update (exclude_unset keeps the fields sent)
StatusUpdateBodies(project_id) ==
    {[name |-> StoredName(project_id), status |-> s] : s \in ProjectStatus}

StakeholderUpdateBodies(project_id) ==
    {[name |-> StoredName(project_id), stakeholders |-> <<"dev">>]}

Created == next_oid - 1 - Cardinality(init_sample_projects)

\* the requests of Spec: the operations that write a project's status
WorkflowRequests ==
    {Request("update_project_status", User("pm"), pid, [status |-> s])
            : pid \in StoredIds \cup StoredOidTexts, s \in {"execution", "closure"}}
    \cup {Request("update_project_status", User("pm"), MissingId, b)
            : b \in {[status |-> "planning"], NoArg}}
    \cup {Request("transition_project_phase", User("pm"), pid, [new_phase |-> s])
            : pid \in StoredIds, s \in ProjectStatus}
    \cup {Request("transition_project_phase", u, pid, [new_phase |-> "completed"])
            : u \in {User("dev")}, pid \in StoredIds}
    \cup {Request("transition_project_phase", User("pm"), MissingId,
                  [new_phase |-> "planning"])}
    \cup UNION {{Request("update_project", User("exec"), pid, b)
                    : b \in StatusUpdateBodies(pid)} : pid \in StoredIds}

\* the requests of SpecAccess: the operations that read, change and delete a
\* project, by every user
AccessRequests ==
    {Request("create_project", u, Str(""), b)
        : u \in Callers, b \in {c \in CreateBodies : c.status = "initiation"}}
    \cup {Request("get_projects", u, Str(""), NoArg) : u \in Callers}
    \cup {Request("get_project", u, pid, NoArg) : u \in Callers, pid \in StoredIds}
    \cup UNION {{Request("update_project", u, pid, b)
                    : u \in Callers, b \in StakeholderUpdateBodies(pid)}
                : pid \in StoredIds}
    \cup {Request("delete_project", u, pid, NoArg) : u \in Callers, pid \in StoredIds}
    \cup {Request(op, User("pm"), MissingId, NoArg)
            : op \in {"get_project", "delete_project"}}
    \cup {Request("update_project", User("pm"), MissingId, b)
            : b \in StakeholderUpdateBodies(MissingId)}

CreateProject(reqs) ==
    \E r \in reqs :
        /\ r.op = "create_project"
        /\ Created < MaxCreated
        /\ Serve(r)

GetProjects(reqs) == \E r \in reqs : r.op = "get_projects" /\ Serve(r)

GetDashboardStats(reqs) == \E r \in reqs : r.op = "get_dashboard_stats" /\ Serve(r)

UpdateProjectStatus(reqs) == \E r \in reqs : r.op = "update_project_status" /\ Serve(r)

GetProject(reqs) == \E r \in reqs : r.op = "get_project" /\ Serve(r)

UpdateProject(reqs) == \E r \in reqs : r.op = "update_project" /\ Serve(r)

DeleteProject(reqs) == \E r \in reqs : r.op = "delete_project" /\ Serve(r)

TransitionProjectPhase(reqs) ==
    \E r \in reqs : r.op = "transition_project_phase" /\ Serve(r)

\* the status-writing operations, one request at a time
Next ==
    \/ Tick
    \/ UpdateProjectStatus(WorkflowRequests)
    \/ TransitionProjectPhase(WorkflowRequests)
    \/ UpdateProject(WorkflowRequests)

Spec == Init /\ [][Next]_vars

\* project reads, updates and deletes by every user, one request at a time
NextAccess ==
    \/ CreateProject(AccessRequests)
    \/ GetProjects(AccessRequests)
    \/ GetProject(AccessRequests)
    \/ UpdateProject(AccessRequests)
    \/ DeleteProject(AccessRequests)

SpecAccess == Init /\ [][NextAccess]_vars

(***************************************************************************)
(* SpecListing: the operations that list projects.                         *)
(***************************************************************************)
ListingRequests ==
    {Request("create_project", User("dev"), Str(""), b)
        : b \in {c \in CreateBodies : c.status = "initiation"}}
    \cup UNION {{Request("update_project", User("pm"), pid, b)
                    : b \in StakeholderUpdateBodies(pid)} : pid \in StoredIds}
    \cup {Request("get_projects", u, Str(""), NoArg)
            : u \in {User("pm"), User("dev"), User("sh")}}
    \cup {Request("get_projects_by_module", u, Str(""), [module_name |-> m])
            : u \in {User("dev"), User("sh")}, m \in {"planning", "closure", "reports"}}
    \cup {Request("get_projects_by_phase", u, Str(""), [phase |-> s])
            : u \in {User("dev"), User("sh")}, s \in {"initiation", "planning"}}
    \cup {Request("get_projects_available_for_phase", u, Str(""), [target_phase |-> s])
            : u \in {User("dev"), User("sh")},
              s \in {"initiation", "planning", "execution"}}

GetProjectsByModule(reqs) ==
    \E r \in reqs : r.op = "get_projects_by_module" /\ Serve(r)

GetProjectsByPhase(reqs) ==
    \E r \in reqs : r.op = "get_projects_by_phase" /\ Serve(r)

GetProjectsAvailableForPhase(reqs) ==
    \E r \in reqs : r.op = "get_projects_available_for_phase" /\ Serve(r)

NextListing ==
    \/ CreateProject(ListingRequests)
    \/ UpdateProject(ListingRequests)
    \/ GetProjects(ListingRequests)
    \/ GetProjectsByModule(ListingRequests)
    \/ GetProjectsByPhase(ListingRequests)
    \/ GetProjectsAvailableForPhase(ListingRequests)

SpecListing == Init /\ [][NextListing]_vars

(***************************************************************************)
(* SpecDashboard: projects created by the team member, the team member     *)
(* listed as stakeholder of a project, projects moved to a finished        *)
(* status, and the dashboard read by every user; one request at a time.    *)
(***************************************************************************)
DashboardRequests ==
    {Request("create_project", User("dev"), Str(""), b)
        : b \in {c \in CreateBodies : c.status = "initiation"}}
    \cup UNION {{Request("update_project", User("pm"), pid, b)
                    : b \in StakeholderUpdateBodies(pid)} : pid \in StoredIds}
    \cup {Request("transition_project_phase", User("exec"), pid, [new_phase |-> s])
            : pid \in StoredIds, s \in {"completed", "cancelled"}}
    \cup {Request("get_dashboard_stats", u, Str(""), NoArg) : u \in Callers}

NextDashboard ==
    \/ CreateProject(DashboardRequests)
    \/ UpdateProject(DashboardRequests)
    \/ TransitionProjectPhase(DashboardRequests)
    \/ GetDashboardStats(DashboardRequests)

SpecDashboard == Init /\ [][NextDashboard]_vars

(***************************************************************************)
(* Requests on sub-documents and templates.                                *)
(***************************************************************************)
\* sub-documents and templates inserted by requests
DocsCreated == next_doc - 1 - Inserted(init_sample_timeline_data, init_default_templates)

\* a request that creates a sub-document of project_id
CreateRequest(op, user, project_id) ==
    Request(op, user, project_id, [body |-> [project_id |-> project_id]])

\* a request that reads the sub-documents of project_id
ReadRequest(op, user, project_id) == Request(op, user, project_id, NoArg)

\* a request that updates the stored sub-document d, its body naming project_id
UpdateRequest(op, user, d, project_id) ==
    Request(op, user, d.project_id, [doc_id |-> d.id, body |-> [project_id |-> project_id]])

\* the project ids a request names: the stored ones and one of no project
NamedIds == StoredIds \cup {MissingId}

\* the project ids stored sub-documents of coll carry
ReferencedIds(coll) == {d.project_id : d \in subdocs[coll]}

\* the sub-documents of coll inserted by requests
CreatedDocs(coll) ==
    {d \in subdocs[coll] : d \notin init_sample_timeline_data[coll]
                           /\ \A e \in init_sample_timeline_data[coll] : e.id # d.id}

(***************************************************************************)
(* SpecDocs: projects deleted and sub-documents created, read and updated, *)
(* one request at a time.                                                  *)
(***************************************************************************)
DocsRequests ==
    {Request("delete_project", u, pid, NoArg)
        : u \in {User("pm"), User("exec")}, pid \in StoredIds}
    \cup UNION {{Request("update_project", User("exec"), pid, b)
                    : b \in StakeholderUpdateBodies(pid)} : pid \in StoredIds}
    \cup {Request("get_projects", User("exec"), Str(""), NoArg)}
    \cup {Request("get_project", User("exec"), pid, NoArg) : pid \in StoredIds}
    \cup {CreateRequest("create_project_charter", u, pid)
            : u \in {User("pm"), User("dev")}, pid \in NamedIds}
    \cup {ReadRequest("get_project_charter", u, pid)
            : u \in {User("dev"), User("exec")},
              pid \in StoredIds \cup ReferencedIds("project_charters")}
    \cup {UpdateRequest("update_project_charter", User("pm"), d, pid)
            : d \in subdocs["project_charters"], pid \in NamedIds}
    \cup {CreateRequest("create_stakeholder", User("dev"), pid) : pid \in NamedIds}
    \cup {ReadRequest("get_project_stakeholders", u, pid)
            : u \in {User("dev"), User("exec")},
              pid \in StoredIds \cup ReferencedIds("stakeholders")}
    \cup {CreateRequest("create_timeline_task", User("pm"), pid) : pid \in NamedIds}
    \cup {ReadRequest("get_project_timeline_tasks", u, pid)
            : u \in {User("dev"), User("exec")},
              pid \in StoredIds \cup ReferencedIds("timeline_tasks")}
    \cup {UpdateRequest("update_timeline_task", User("pm"), d, pid)
            : d \in CreatedDocs("timeline_tasks"), pid \in NamedIds}

\* the guard of the actions that insert a sub-document or a template
MayInsert == DocsCreated < MaxDocs

CreateProjectCharter(reqs) ==
    \E r \in reqs : r.op = "create_project_charter" /\ MayInsert /\ Serve(r)

GetProjectCharter(reqs) == \E r \in reqs : r.op = "get_project_charter" /\ Serve(r)

UpdateProjectCharter(reqs) == \E r \in reqs : r.op = "update_project_charter" /\ Serve(r)

CreateStakeholder(reqs) ==
    \E r \in reqs : r.op = "create_stakeholder" /\ MayInsert /\ Serve(r)

GetProjectStakeholders(reqs) ==
    \E r \in reqs : r.op = "get_project_stakeholders" /\ Serve(r)

CreateTimelineTask(reqs) ==
    \E r \in reqs : r.op = "create_timeline_task" /\ MayInsert /\ Serve(r)

GetProjectTimelineTasks(reqs) ==
    \E r \in reqs : r.op = "get_project_timeline_tasks" /\ Serve(r)

UpdateTimelineTask(reqs) == \E r \in reqs : r.op = "update_timeline_task" /\ Serve(r)

NextDocs ==
    \/ DeleteProject(DocsRequests)
    \/ UpdateProject(DocsRequests)
    \/ GetProjects(DocsRequests)
    \/ GetProject(DocsRequests)
    \/ CreateProjectCharter(DocsRequests)
    \/ GetProjectCharter(DocsRequests)
    \/ UpdateProjectCharter(DocsRequests)
    \/ CreateStakeholder(DocsRequests)
    \/ GetProjectStakeholders(DocsRequests)
    \/ CreateTimelineTask(DocsRequests)
    \/ GetProjectTimelineTasks(DocsRequests)
    \/ UpdateTimelineTask(DocsRequests)

SpecDocs == Init /\ [][NextDocs]_vars

(***************************************************************************)
(* SpecStakeholders: stakeholder entries and budget items written by       *)
(* callers of every role while projects are deleted; one request at a      *)
(* time.                                                                   *)
(***************************************************************************)
StakeholdersRequests ==
    {Request("delete_project", User("pm"), pid, NoArg) : pid \in StoredIds}
    \cup {CreateRequest("create_stakeholder", u, pid) : u \in Callers, pid \in NamedIds}
    \cup {CreateRequest("create_budget_item", u, pid) : u \in Callers, pid \in NamedIds}
    \cup {UpdateRequest("update_stakeholder", u, d, d.project_id)
            : u \in {User("dev"), User("sh")}, d \in subdocs["stakeholders"]}
    \cup {Request("delete_stakeholder", u, d.project_id, [doc_id |-> d.id])
            : u \in {User("dev"), User("sh")}, d \in subdocs["stakeholders"]}

UpdateStakeholder(reqs) == \E r \in reqs : r.op = "update_stakeholder" /\ Serve(r)

DeleteStakeholder(reqs) == \E r \in reqs : r.op = "delete_stakeholder" /\ Serve(r)

CreateBudgetItem(reqs) ==
    \E r \in reqs : r.op = "create_budget_item" /\ MayInsert /\ Serve(r)

NextStakeholders ==
    \/ Tick
    \/ DeleteProject(StakeholdersRequests)
    \/ CreateStakeholder(StakeholdersRequests)
    \/ UpdateStakeholder(StakeholdersRequests)
    \/ DeleteStakeholder(StakeholdersRequests)
    \/ CreateBudgetItem(StakeholdersRequests)

SpecStakeholders == Init /\ [][NextStakeholders]_vars

(***************************************************************************)
(* SpecTemplates: the role-gated writes (charter, business case,           *)
(* feasibility study, template, apply template) by callers of every role,  *)
(* one request at a time.                                                  *)
(***************************************************************************)
RECURSIVE UsageTotal(_)
\* the uses recorded on a set of templates
UsageTotal(tpls) ==
    IF tpls = {} THEN 0
    ELSE LET t == CHOOSE x \in tpls : TRUE
         IN  t.usage_count + UsageTotal(tpls \ {t})

\* the guard of the actions that record the use of a template
MayUse == UsageTotal(templates) < MaxDocs

\* a request that names a template
TemplateRequest(op, user, project_id, template_id) ==
    Request(op, user, project_id, [template_id |-> template_id])

TemplatesRequests ==
    {Request("create_project", User("dev"), Str(""), b)
        : b \in {c \in CreateBodies : c.status = "initiation"}}
    \cup {CreateRequest("create_project_charter", u, pid)
            : u \in {User("pm"), User("dev")}, pid \in StoredIds}
    \cup {UpdateRequest("update_project_charter", u, d, d.project_id)
            : u \in {User("exec"), User("dev")}, d \in subdocs["project_charters"]}
    \cup {CreateRequest("create_business_case", u, pid)
            : u \in {User("exec"), User("sh")}, pid \in StoredIds}
    \cup {CreateRequest("create_feasibility_study", u, pid)
            : u \in {User("pm"), User("sh")}, pid \in StoredIds}
    \cup {UpdateRequest("update_feasibility_study", u, d, d.project_id)
            : u \in {User("pm"), User("dev")}, d \in subdocs["feasibility_studies"]}
    \cup {Request("create_template", u, Str(""),
                  [body |-> [name |-> "Template X", template_type |-> "risk_log",
                             sample_stakeholders |-> <<>>]])
            : u \in {User("pm"), User("dev")}}
    \cup {TemplateRequest("apply_template_to_project", u, pid, tid)
            : u \in {User("pm"), User("dev"), User("sh")}, pid \in StoredIds,
              tid \in {DocId(1), DocId(5)}}
    \cup {TemplateRequest("use_template", User("dev"), Str(""), DocId(1))}

CreateBusinessCase(reqs) ==
    \E r \in reqs : r.op = "create_business_case" /\ MayInsert /\ Serve(r)

CreateFeasibilityStudy(reqs) ==
    \E r \in reqs : r.op = "create_feasibility_study" /\ MayInsert /\ Serve(r)

UpdateFeasibilityStudy(reqs) ==
    \E r \in reqs : r.op = "update_feasibility_study" /\ Serve(r)

CreateTemplate(reqs) ==
    \E r \in reqs : r.op = "create_template" /\ MayInsert /\ Serve(r)

ApplyTemplateToProject(reqs) ==
    \E r \in reqs : r.op = "apply_template_to_project" /\ MayInsert /\ MayUse /\ Serve(r)

UseTemplate(reqs) == \E r \in reqs : r.op = "use_template" /\ MayUse /\ Serve(r)

NextTemplates ==
    \/ CreateProject(TemplatesRequests)
    \/ CreateProjectCharter(TemplatesRequests)
    \/ UpdateProjectCharter(TemplatesRequests)
    \/ CreateBusinessCase(TemplatesRequests)
    \/ CreateFeasibilityStudy(TemplatesRequests)
    \/ UpdateFeasibilityStudy(TemplatesRequests)
    \/ CreateTemplate(TemplatesRequests)
    \/ ApplyTemplateToProject(TemplatesRequests)
    \/ UseTemplate(TemplatesRequests)

SpecTemplates == Init /\ [][NextTemplates]_vars

(***************************************************************************)
(* SpecApply: charter, business case and stakeholder register templates    *)
(* applied to the projects again and again, one request at a time; a       *)
(* register of one sample stakeholder is created first in some behaviours. *)
(***************************************************************************)
\* the first default template of each applied type, and the templates
\* callers created
AppliedTemplates ==
    {DocId(1), DocId(3), DocId(5)}
    \cup {t.id : t \in {x \in templates : x.created_by # "system"}}

ApplyRequests ==
    {Request("create_template", User("pm"), Str(""),
             [body |-> [name |-> "Short Register",
                        template_type |-> "stakeholder_register",
                        sample_stakeholders |-> <<"Auditor">>]])}
    \cup {TemplateRequest("apply_template_to_project", u, pid, tid)
            : u \in {User("pm"), User("exec"), User("dev")}, pid \in NamedIds,
              tid \in AppliedTemplates}

MayApply == UsageTotal(templates) < MaxApplies

CreateRegisterTemplate(reqs) ==
    \E r \in reqs : r.op = "create_template" /\ MayInsert /\ Serve(r)

ApplyTemplateAgain(reqs) ==
    \E r \in reqs : r.op = "apply_template_to_project" /\ MayApply /\ Serve(r)

NextApply ==
    \/ CreateRegisterTemplate(ApplyRequests)
    \/ ApplyTemplateAgain(ApplyRequests)

SpecApply == Init /\ [][NextApply]_vars

(***************************************************************************)
(* SpecMaterialize: every default template, of each of the five types,     *)
(* applied to the projects by a project manager and an executive, one      *)
(* request at a time.                                                      *)
(***************************************************************************)
MaterializeRequests ==
    {TemplateRequest("apply_template_to_project", u, pid, t.id)
        : u \in {User("pm"), User("exec")}, pid \in NamedIds,
          t \in init_default_templates}

NextMaterialize == ApplyTemplateAgain(MaterializeRequests)

SpecMaterialize == Init /\ [][NextMaterialize]_vars

(***************************************************************************)
(* SpecCandidacy: the projects moved to any phase by the project manager   *)
(* on the transition route, status requests of the manager on the status   *)
(* route, and the candidates for every target phase listed; one request at *)
(* a time.                                                                 *)
(***************************************************************************)
CandidacyRequests ==
    {Request("transition_project_phase", User("pm"), pid, [new_phase |-> s])
        : pid \in StoredIds, s \in ProjectStatus}
    \cup {Request("update_project_status", User("pm"), pid, [status |-> s])
            : pid \in StoredIds, s \in {"initiation", "closure", "cancelled"}}
    \cup {Request("get_projects_available_for_phase", u, Str(""), [target_phase |-> s])
            : u \in {User("dev"), User("exec")}, s \in ProjectStatus \cup {"archived"}}

NextCandidacy ==
    \/ UpdateProjectStatus(CandidacyRequests)
    \/ TransitionProjectPhase(CandidacyRequests)
    \/ GetProjectsAvailableForPhase(CandidacyRequests)

SpecCandidacy == Init /\ [][NextCandidacy]_vars

(***************************************************************************)
(* SpecRisk: risks created (both routes), updated and read, one request at *)
(* a time.  The bodies carry a risk_score of the caller's.                 *)
(***************************************************************************)
\* the risk_score the callers send
SuppliedScore == 99

RiskBodies(project_id) ==
    {[project_id |-> project_id, probability |-> p, impact |-> i,
      risk_score |-> SuppliedScore]
        : p \in {"low", "medium", "high"}, i \in {"low", "very_high"}}
    \cup {[project_id |-> project_id, probability |-> "extreme", impact |-> "low",
           risk_score |-> SuppliedScore]}

RiskRequests ==
    UNION {{Request("create_risk", User("dev"), pid, [body |-> b])
              : b \in RiskBodies(pid)} : pid \in NamedIds}
    \cup UNION {{Request("create_risk_by_path", User("pm"), pid, [body |-> b])
                   : b \in {c \in RiskBodies(pid) : c.probability # "low"}}
                  : pid \in StoredIds}
    \cup UNION {{Request("update_risk", User("dev"), d.project_id,
                         [doc_id |-> d.id, body |-> b])
                   : b \in RiskBodies(d.project_id)} : d \in subdocs["risks"]}
    \cup {ReadRequest("get_project_risks", u, pid)
            : u \in {User("exec"), User("sh")}, pid \in NamedIds}
    \cup {ReadRequest("get_project_risks_by_path", u, pid)
            : u \in {User("exec"), User("sh")}, pid \in NamedIds}

CreateRisk(reqs) == \E r \in reqs : r.op = "create_risk" /\ MayInsert /\ Serve(r)

CreateRiskByPath(reqs) ==
    \E r \in reqs : r.op = "create_risk_by_path" /\ MayInsert /\ Serve(r)

UpdateRisk(reqs) == \E r \in reqs : r.op = "update_risk" /\ Serve(r)

GetProjectRisks(reqs) == \E r \in reqs : r.op = "get_project_risks" /\ Serve(r)

GetProjectRisksByPath(reqs) ==
    \E r \in reqs : r.op = "get_project_risks_by_path" /\ Serve(r)

NextRisk ==
    \/ CreateRisk(RiskRequests)
    \/ CreateRiskByPath(RiskRequests)
    \/ UpdateRisk(RiskRequests)
    \/ GetProjectRisks(RiskRequests)
    \/ GetProjectRisksByPath(RiskRequests)

SpecRisk == Init /\ [][NextRisk]_vars

(***************************************************************************)
(* SpecScore: risks created on both routes with every pair of probability  *)
(* and impact, and read back.                                              *)
(***************************************************************************)
ScoreBodies(project_id) ==
    {[project_id |-> project_id, probability |-> p, impact |-> i]
        : p \in RiskLevels, i \in RiskLevels}

ScoreRequests ==
    UNION {{Request("create_risk", User("pm"), pid, [body |-> b])
              : b \in ScoreBodies(pid)} : pid \in StoredIds}
    \cup UNION {{Request("create_risk_by_path", User("dev"), pid, [body |-> b])
                   : b \in {c \in ScoreBodies(pid) : c.probability \in {"low", "high"}}}
                  : pid \in StoredIds}
    \cup {ReadRequest("get_project_risks_by_path", User("exec"), pid) : pid \in NamedIds}

NextScore ==
    \/ CreateRisk(ScoreRequests)
    \/ CreateRiskByPath(ScoreRequests)
    \/ GetProjectRisksByPath(ScoreRequests)

SpecScore == Init /\ [][NextScore]_vars

(***************************************************************************)
(* SpecRace: status-transition requests in flight together.  A step is one *)
(* datastore call of one request; a request keeps its slot, with its       *)
(* response, until the caller has received it.                             *)
(***************************************************************************)
RacePhases == {"execution", "cancelled", "completed"}

RaceRequests ==
    {Request("transition_project_phase", u, pid, [new_phase |-> s])
        : u \in {User("pm")}, pid \in StoredIds, s \in RacePhases}
    \cup {Request("update_project_status", User("pm"), pid, [status |-> "execution"])
            : pid \in StoredIds}

Slots == 1..MaxInflight

IsStatusWrite(r) ==
    /\ r.op \in {"transition_project_phase", "update_project_status"}
    /\ r.pc = "update_one"

\* the status stored for the project r addresses ("" when there is none)
StoredStatus(r) ==
    LET hit == {d \in projects : d.id = r.project_id \/ d._id = r.project_id}
    IN  IF hit = {} THEN "" ELSE (CHOOSE d \in hit : TRUE).status

\* slot i runs r from r.pc to its next datastore call
Advance(i, r) ==
    LET out == Step(DB, now, r)
        r2 == IF IsStatusWrite(r)
              THEN [out.r EXCEPT !.seen_at_write = StoredStatus(r)]
              ELSE out.r
    IN  /\ projects' = out.db.projects
        /\ next_oid' = out.db.next_oid
        /\ subdocs' = out.db.subdocs
        /\ templates' = out.db.templates
        /\ next_doc' = out.db.next_doc
        /\ inflight' = [inflight EXCEPT ![i] = r2]
        /\ users' = out.db.users
        /\ UNCHANGED <<now, resp>>

\* a request of op, one of reqs, arrives in a free slot and makes its first
\* datastore call, or a request of op in flight makes its next one
HandleIn(reqs, op) ==
    \E i \in Slots :
        \/ /\ inflight[i].pc = "idle"
           /\ \E r \in reqs : r.op = op /\ Advance(i, r)
        \/ /\ inflight[i].op = op
           /\ inflight[i].pc \notin {"idle", "done"}
           /\ Advance(i, inflight[i])

Handle(op) == HandleIn(RaceRequests, op)

RaceTransitionProjectPhase == Handle("transition_project_phase")

RaceUpdateProjectStatus == Handle("update_project_status")

\* the caller receives the response; the slot is free again
Reply ==
    \E i \in Slots :
        /\ inflight[i].pc = "done"
        /\ inflight' = [inflight EXCEPT ![i] = Idle]
        /\ UNCHANGED <<users, projects, next_oid, now, resp,
                       subdocs, templates, next_doc>>

NextRace ==
    \/ Tick
    \/ RaceTransitionProjectPhase
    \/ RaceUpdateProjectStatus
    \/ Reply

SpecRace == Init /\ [][NextRace]_vars

(***************************************************************************)
(* SpecUsage: use-template and apply-template requests in flight together, *)
(* a step being one datastore call of one request.                         *)
(***************************************************************************)
\* the risk log template: applying it writes nothing but the usage count
RiskLogTemplate == DocId(6)

UsageRequests ==
    {TemplateRequest("use_template", User("dev"), Str(""), tid)
        : tid \in {RiskLogTemplate, DocId(1), MissingId}}
    \cup {TemplateRequest("apply_template_to_project", u, pid, RiskLogTemplate)
            : u \in {User("pm"), User("sh")}, pid \in NamedIds}

\* requests arrive while fewer than MaxDocs uses are recorded
Arrivals == IF MayUse THEN UsageRequests ELSE {}

RaceUseTemplate == HandleIn(Arrivals, "use_template")

RaceApplyTemplateToProject == HandleIn(Arrivals, "apply_template_to_project")

NextUsage ==
    \/ RaceUseTemplate
    \/ RaceApplyTemplateToProject
    \/ Reply

SpecUsage == Init /\ [][NextUsage]_vars

(***************************************************************************)
(* SpecSingleton: charter and business case templates applied to the       *)
(* projects by requests in flight together, a step being one datastore     *)
(* call of one request.                                                    *)
(***************************************************************************)
SingletonRequests ==
    {TemplateRequest("apply_template_to_project", u, pid, tid)
        : u \in {User("pm"), User("exec")}, pid \in StoredIds,
          tid \in {DocId(1), DocId(3)}}

\* requests arrive while fewer than MaxApplies uses are recorded
SingletonArrivals == IF MayApply THEN SingletonRequests ELSE {}

RaceApplySingleton == HandleIn(SingletonArrivals, "apply_template_to_project")

NextSingleton ==
    \/ RaceApplySingleton
    \/ Reply

SpecSingleton == Init /\ [][NextSingleton]_vars

(***************************************************************************)
(* SpecLifecycle: projects created on both routes by callers of every      *)
(* role, then read and moved through the workflow by their manager under   *)
(* the id the creation returned; one request at a time.                    *)
(***************************************************************************)
WizardBodies == {[project_name |-> "Project W", stakeholders |-> <<>>, budget |-> 0]}

\* the projects a caller created (the others are the samples of startup)
CreatedProjects == {d \in projects : \A e \in init_sample_projects : e.id # d.id}

LifecycleRequests ==
    {Request("create_project", u, Str(""), b) : u \in Callers, b \in CreateBodies}
    \cup {Request("create_project_from_wizard", u, Str(""), b)
            : u \in Callers, b \in WizardBodies}
    \cup {Request("update_project_status", User(d.project_manager_id), d.id,
                  [status |-> s])
            : d \in CreatedProjects, s \in {"execution", "closure"}}
    \cup {Request("transition_project_phase", User(d.project_manager_id), d.id,
                  [new_phase |-> s])
            : d \in CreatedProjects, s \in {"planning", "execution", "closure"}}
    \cup {Request("get_project", u, d.id, NoArg) : u \in Callers, d \in CreatedProjects}

CreateProjectFromWizard(reqs) ==
    \E r \in reqs :
        /\ r.op = "create_project_from_wizard"
        /\ Created < MaxCreated
        /\ Serve(r)

NextLifecycle ==
    \/ CreateProject(LifecycleRequests)
    \/ CreateProjectFromWizard(LifecycleRequests)
    \/ UpdateProjectStatus(LifecycleRequests)
    \/ TransitionProjectPhase(LifecycleRequests)
    \/ GetProject(LifecycleRequests)

SpecLifecycle == Init /\ [][NextLifecycle]_vars

(***************************************************************************)
(* SpecOwnership: projects created, updated with bodies that name another  *)
(* manager and creator, moved between phases and given a charter from a    *)
(* template; one request at a time.                                        *)
(***************************************************************************)
OwnerUpdateBodies(project_id) ==
    {[name |-> StoredName(project_id), project_manager_id |-> "dev", created_by |-> "dev"]}

OwnershipRequests ==
    {Request("create_project", User("sh"), Str(""), b)
        : b \in {c \in CreateBodies : c.status = "initiation"}}
    \cup UNION {{Request("update_project", User("exec"), pid, b)
                    : b \in OwnerUpdateBodies(pid)}
                : pid \in StoredIds}
    \cup {Request("update_project_status", User("pm"), pid, [status |-> "execution"])
            : pid \in StoredIds}
    \cup {Request("transition_project_phase", User("exec"), pid, [new_phase |-> "execution"])
            : pid \in StoredIds}
    \cup {TemplateRequest("apply_template_to_project", User("pm"), pid, DocId(1))
            : pid \in StoredIds}

NextOwnership ==
    \/ CreateProject(OwnershipRequests)
    \/ UpdateProject(OwnershipRequests)
    \/ UpdateProjectStatus(OwnershipRequests)
    \/ TransitionProjectPhase(OwnershipRequests)
    \/ ApplyTemplateAgain(OwnershipRequests)

SpecOwnership == Init /\ [][NextOwnership]_vars

(***************************************************************************)
(* SpecRegister: registration requests in flight together, a step being    *)
(* one datastore call of one request.                                      *)
(***************************************************************************)
RegisterBodies ==
    {[email |-> e, username |-> n, role |-> TEAM_MEMBER, password |-> "secret"]
        : e \in {"new@projecthub.com", "pm@projecthub.com"},
          n \in {"newcomer", "other", "developer"}}
    \cup {[email |-> "new@projecthub.com", username |-> "newcomer",
           role |-> "admin", password |-> "secret"]}

RegisterRequests ==
    {Request("register", NoUser, Str(""), [body |-> b]) : b \in RegisterBodies}

MayRegister == Cardinality(users) < Cardinality(DemoUsers) + MaxRegistered

RaceRegister == HandleIn(IF MayRegister THEN RegisterRequests ELSE {}, "register")

NextRegister ==
    \/ RaceRegister
    \/ Reply

SpecRegister == Init /\ [][NextRegister]_vars

(***************************************************************************)
(* SpecStartup: the server started on an empty datastore.  startup_event   *)
(* runs its four initializations in order (a step per demo user, then a    *)
(* step per initialization); the routes are served once it has returned.   *)
(* The callers ask for the demo credentials, log in, present the token of  *)
(* the last login or registration, and register.                           *)
(***************************************************************************)
StartupRequest ==
    [Request("startup_event", NoUser, Str(""), NoArg) EXCEPT !.pc = "init_demo_users"]

InitEmpty ==
    /\ users = {}
    /\ projects = {}
    /\ next_oid = 1
    /\ templates = {}
    /\ subdocs = [coll \in Collections |-> {}]
    /\ next_doc = 1
    /\ now = 0
    /\ resp = Response(StartupRequest)
    /\ inflight = [i \in 1..MaxInflight |-> IF i = 1 THEN StartupRequest ELSE Idle]

StartupDone == \A i \in Slots : inflight[i].op # "startup_event"

\* one step of startup_event
Startup ==
    LET r == inflight[1]
    IN  /\ r.op = "startup_event"
        /\ \/ /\ r.pc = "init_demo_users"
              /\ LET user == DemoUserList[r.created_count + 1]
                     last == r.created_count + 1 = Len(DemoUserList)
                 IN  /\ users' = IF FindOne(users, [email |-> user.email]) = {}
                                 THEN users \cup {user} ELSE users
                     /\ inflight' = [inflight EXCEPT ![1] =
                                        [r EXCEPT !.created_count = @ + 1,
                                                  !.pc = IF last THEN "init_default_templates"
                                                         ELSE "init_demo_users"]]
              /\ UNCHANGED <<projects, next_oid, templates, subdocs, next_doc, resp>>
           \/ /\ r.pc = "init_default_templates"
              /\ templates' = init_default_templates
              /\ next_doc' = Cardinality(init_default_templates) + 1
              /\ inflight' = [inflight EXCEPT ![1].pc = "init_sample_projects"]
              /\ UNCHANGED <<users, projects, next_oid, subdocs, resp>>
           \/ /\ r.pc = "init_sample_projects"
              /\ IF FindOne(users, [email |-> "pm@projecthub.com"]) = {}
                 THEN UNCHANGED <<projects, next_oid>>
                 ELSE /\ projects' = init_sample_projects
                      /\ next_oid' = Cardinality(init_sample_projects) + 1
              /\ inflight' = [inflight EXCEPT ![1].pc = "init_sample_timeline_data"]
              /\ UNCHANGED <<users, templates, subdocs, next_doc, resp>>
           \/ /\ r.pc = "init_sample_timeline_data"
              /\ subdocs' = init_sample_timeline_data
              /\ next_doc' = Inserted(init_sample_timeline_data, templates) + 1
              /\ inflight' = [inflight EXCEPT ![1] = Idle]
              /\ resp' = Response(Respond(r, 200, [msg |-> "started"], {}))
              /\ UNCHANGED <<users, projects, next_oid, templates>>
        /\ UNCHANGED now

\* the credentials GET /api/auth/demo-users publishes
Published == Run(DB, now, Request("get_demo_users", NoUser, Str(""), NoArg)).r.body

\* the login form with a credential
LoginRequest(username, password) ==
    Request("login", NoUser, Str(""), [username |-> username, password |-> password])

\* GET /api/auth/me with a bearer token
MeRequest(token) == Request("get_current_user_info", NoUser, Str(""), [token |-> token])

StartupRequests ==
    {Request("get_demo_users", NoUser, Str(""), NoArg)}
    \cup {LoginRequest(c.email, c.password) : c \in Published}
    \cup {LoginRequest("developer", "demo123"), LoginRequest("pm@projecthub.com", "secret"),
          LoginRequest("new@projecthub.com", "secret")}
    \cup {MeRequest(t.access_token)
            : t \in IF resp.op \in {"login", "register"} THEN resp.body ELSE {}}
    \cup {MeRequest([sub |-> "", exp |-> 0])}
    \cup RegisterRequests

GetDemoUsers(reqs) == \E r \in reqs : r.op = "get_demo_users" /\ StartupDone /\ Serve(r)

Login(reqs) == \E r \in reqs : r.op = "login" /\ StartupDone /\ Serve(r)

GetCurrentUserInfo(reqs) ==
    \E r \in reqs : r.op = "get_current_user_info" /\ StartupDone /\ Serve(r)

Register(reqs) ==
    \E r \in reqs : r.op = "register" /\ StartupDone /\ MayRegister /\ Serve(r)

NextStartup ==
    \/ Startup
    \/ Tick
    \/ GetDemoUsers(StartupRequests)
    \/ Login(StartupRequests)
    \/ GetCurrentUserInfo(StartupRequests)
    \/ Register(StartupRequests)

\* startup_event is awaited to its end before the server accepts requests
SpecStartup == InitEmpty /\ [][NextStartup]_vars /\ WF_vars(Startup)

(***************************************************************************)
(* SpecRestart: the server started again on the store a startup seeded and *)
(* requests changed: a user registered, sample projects renamed and moved  *)
(* between phases, a template used.  startup_event ends before a request is *)
(* served, so a restart is one step.                                       *)
(***************************************************************************)
\* how many numbers of missing are below n: the n-th entry of a list is the
\* (Rank + 1)-th this run inserts
Rank(missing, n) == Cardinality({m \in missing : m < n})

\* init_demo_users on the store db: a demo user is inserted unless a user
\* of its email is stored
init_demo_users(db) ==
    LET missing == {n \in DOMAIN DemoUserList :
                       FindOne(db.users, [email |-> DemoUserList[n].email]) = {}}
    IN  [db EXCEPT !.users = @ \cup {DemoUserList[n] : n \in missing}]

\* init_default_templates on the store db: a default template is inserted
\* unless a template of its name is stored
init_default_templates_again(db) ==
    LET missing == {n \in DOMAIN DefaultTemplateList :
                       FindOne(db.templates, [name |-> DefaultTemplateList[n].name]) = {}}
    IN  [db EXCEPT
            !.templates =
                @ \cup { LET t == DefaultTemplateList[n]
                         IN  TemplateDoc(db.next_doc + Rank(missing, n), t.name,
                                         t.template_type, t.sample_stakeholders, "system")
                         : n \in missing },
            !.next_doc = @ + Cardinality(missing)]

\* init_sample_projects that inserts every sample project, whatever is stored
init_sample_projects_NoLookup(db, clock) ==
    LET pm_user == FindOne(db.users, [email |-> "pm@projecthub.com"])
        samples == 1..Min(NumSamples, Len(SampleProjectList))
    IN  IF pm_user = {} THEN db
        ELSE [db EXCEPT
                !.projects =
                    @ \cup { LET sp == SampleProjectList[n]
                             IN  ProjectDoc(db.next_oid + n - 1, sp.name, sp.status,
                                            sp.stakeholders, sp.budget,
                                            (CHOOSE u \in pm_user : TRUE).id, clock,
                                            sp.completion_percentage)
                             : n \in samples },
                !.next_oid = @ + Cardinality(samples)]

\* init_sample_projects on the store db: nothing without the PM demo user;
\* a sample project is inserted unless a project of its name is stored
init_sample_projects_again(db, clock) ==
    LET pm_user == FindOne(db.users, [email |-> "pm@projecthub.com"])
        missing == {n \in 1..Min(NumSamples, Len(SampleProjectList)) :
                       FindOne(db.projects, [name |-> SampleProjectList[n].name]) = {}}
    IN  IF pm_user = {} THEN db
        ELSE [db EXCEPT
                !.projects =
                    @ \cup { LET sp == SampleProjectList[n]
                             IN  ProjectDoc(db.next_oid + Rank(missing, n), sp.name,
                                            sp.status, sp.stakeholders, sp.budget,
                                            (CHOOSE u \in pm_user : TRUE).id, clock,
                                            sp.completion_percentage)
                             : n \in missing },
                !.next_oid = @ + Cardinality(missing)]

\* init_sample_timeline_data on the store db: for each of the first two
\* projects (find({}).to_list(5)[:2], in the order of insertion) a sample
\* entry is inserted unless an entry of its project_id and name is stored
init_sample_timeline_data_again(db, clock) ==
    LET Position(d) == CHOOSE n \in 1..db.next_oid : ObjectId(n) = d._id
        sample_projects ==
            {d \in db.projects :
                Cardinality({e \in db.projects : Position(e) < Position(d)}) < 2}
        entries == {x \in (1..db.next_oid) \X (1..Len(SampleCollections))
                                          \X (1..NumSampleDocs) :
                       \E d \in sample_projects : Position(d) = x[1]}
        project_id(x) == (CHOOSE d \in sample_projects : Position(d) = x[1]).id
        missing == {x \in entries :
                       FindOne(db.subdocs[SampleCollections[x[2]]],
                               [project_id |-> project_id(x),
                                name |-> SampleName(x[3])]) = {}}
        Before(x, y) ==
            \/ x[1] < y[1]
            \/ x[1] = y[1] /\ x[2] < y[2]
            \/ x[1] = y[1] /\ x[2] = y[2] /\ x[3] < y[3]
        Fresh(x) == db.next_doc + Cardinality({y \in missing : Before(y, x)})
    IN  [db EXCEPT
            !.subdocs =
                [coll \in Collections |->
                    @[coll] \cup
                        { [id |-> DocId(Fresh(x)), project_id |-> project_id(x),
                           name |-> SampleName(x[3]),
                           created_by |-> (CHOOSE d \in sample_projects
                                              : Position(d) = x[1]).created_by,
                           updated_at |-> clock]
                          : x \in {y \in missing : SampleCollections[y[2]] = coll} }],
            !.next_doc = @ + Cardinality(missing)]

\* startup_event on the store db
startup_event(db, clock) ==
    init_sample_timeline_data_again(
        init_sample_projects_again(
            init_default_templates_again(init_demo_users(db)), clock), clock)

\* the server is started again
Restart ==
    \E out \in {startup_event(DB, now)} :
        /\ users' = out.users
        /\ projects' = out.projects
        /\ next_oid' = out.next_oid
        /\ subdocs' = out.subdocs
        /\ templates' = out.templates
        /\ next_doc' = out.next_doc
        /\ resp' = Response(Respond(StartupRequest, 200, [msg |-> "started"], {}))
        /\ UNCHANGED <<now, inflight>>

RestartRequests ==
    {Request("update_project", User("pm"), pid, [name |-> "Portal Redesign, Phase 2"])
        : pid \in StoredIds}
    \cup {Request("transition_project_phase", User("pm"), pid, [new_phase |-> "execution"])
            : pid \in StoredIds}
    \cup {TemplateRequest("use_template", User("dev"), Str(""), DocId(1))}
    \cup {r \in RegisterRequests : r.arg.body.username = "newcomer"}

\* (a project is renamed while fewer than MaxCreated projects have been
\* inserted since the first startup)
NextRestart ==
    \/ Restart
    \/ Created < MaxCreated /\ UpdateProject(RestartRequests)
    \/ TransitionProjectPhase(RestartRequests)
    \/ UseTemplate(RestartRequests)
    \/ Register(RestartRequests)

SpecRestart == Init /\ [][NextRestart]_vars

(***************************************************************************)
(* Properties.  The response to a request in a given state is              *)
(* Run(DB, now, request).r; the store it leaves is Run(DB, now, request).db*)
(***************************************************************************)
Allowed(s) == Range(valid_transitions[s])

\* in a step of Spec or SpecAccess: a request of op has been served, and
\* resp' is its response (time does not pass while a request is served)
Served(op) == now' = now /\ resp'.op = op

\* C1: a status-transition request asking for t on a project whose stored
\* status is s succeeds iff t is in the allowed set of s, for all 49 pairs.
C1_StatusRequestSucceedsIffAllowed ==
    [][(Served("update_project_status") /\ "status" \in DOMAIN resp'.arg)
         => \A d \in projects :
               d.id = resp'.project_id
                 => ((resp'.code = 200) <=> (resp'.arg.status \in Allowed(d.status)))]_vars

\* C2: every change of a project's stored status from s to a different t is
\* an edge s -> t of the transition table, whatever operation made it.
C2_StatusChangesFollowTable ==
    [][\A d \in projects : \A e \in projects' :
          (e._id = d._id /\ e.status # d.status) => e.status \in Allowed(d.status)]_vars

\* C3: once a project's stored status is completed, no operation changes
\* that project's status again.
C3_CompletedIsTerminal ==
    [][\A d \in projects : \A e \in projects' :
          (e._id = d._id /\ d.status = "completed") => e.status = "completed"]_vars

Read(r) == (CHOOSE d \in r.project : TRUE).status

IsTransitionRequest(r) ==
    r.op \in {"transition_project_phase", "update_project_status"}

\* requests i and j read the same status of the same project; i wrote while
\* that status was current, j wrote when it no longer was
Raced(i, j) ==
    /\ i # j
    /\ inflight[i].pc = "done" /\ inflight[j].pc = "done"
    /\ IsTransitionRequest(inflight[i]) /\ IsTransitionRequest(inflight[j])
    /\ inflight[i].project_id = inflight[j].project_id
    /\ inflight[i].project # {} /\ inflight[j].project # {}
    /\ Read(inflight[i]) = Read(inflight[j])
    /\ inflight[i].seen_at_write = Read(inflight[i])
    /\ inflight[j].seen_at_write \notin {"", Read(inflight[j])}

\* C4: of two concurrent transition requests that read the same status, the
\* one that writes after that status is no longer current gets a conflict
\* error: exactly one succeeds, never both.
C4_ExactlyOneConcurrentSuccess ==
    \A i \in Slots, j \in Slots :
        Raced(i, j) => (inflight[i].code = 200 /\ inflight[j].code = 409)

\* C5: a request's status write is applied only if the stored status at the
\* moment of the write equals the status the request read; otherwise the
\* request gets a conflict error and the project is left unchanged.
C5_WriteOnlyIfStatusStillCurrent ==
    [][\A i \in Slots :
          (IsStatusWrite(inflight[i]) /\ inflight'[i] # inflight[i]
             /\ StoredStatus(inflight[i]) # Read(inflight[i]))
          => (projects' = projects /\ inflight'[i].code = 409)]_vars

\* C6: a transition request whose target is not in the allowed set of the
\* current status fails with an error carrying the current status and the
\* complete allowed set, and leaves the project unchanged.
C6_InvalidTransitionReportsAllowedSet ==
    [][(Served("update_project_status") /\ "status" \in DOMAIN resp'.arg)
         => \A d \in projects :
               (d.id = resp'.project_id /\ resp'.arg.status \notin Allowed(d.status))
                 => /\ resp'.code # 200
                    /\ "current_status" \in DOMAIN resp'.detail
                    /\ "allowed" \in DOMAIN resp'.detail
                    /\ resp'.detail.current_status = d.status
                    /\ Range(resp'.detail.allowed) = Allowed(d.status)
                    /\ projects' = projects]_vars

WriteRequests(u, d) ==
    {Request("delete_project", u, d.id, NoArg)}
    \cup {Request("update_project", u, d.id, b)
            : b \in StakeholderUpdateBodies(d.id)
                     \cup {[name |-> d.name], [name |-> d.name, status |-> "cancelled"]}}

C8_NoWriteByMemberOrStakeholder ==
    [][resp'.user.role \in {TEAM_MEMBER, STAKEHOLDER} => projects \subseteq projects']_vars

Involved(u, d) == u.id \in Range(d.stakeholders) \/ d.created_by = u.id

\* C9: reading a project by id, a team_member who is neither listed in its
\* stakeholders nor its creator is denied; listed in stakeholders, the same
\* user's read succeeds.
C9_ReadByIdNeedsInvolvement ==
    [][(Served("get_project") /\ resp'.user.role = TEAM_MEMBER)
         => \A d \in projects :
               d.id = resp'.project_id
                 => ((resp'.code = 200) <=> Involved(resp'.user, d))]_vars

\* C10: for a project_manager caller the project list contains P iff the
\* caller is P.project_manager_id, is listed in P.stakeholders or is
\* P.created_by.
C10_ManagerListsInvolvedProjects ==
    [][(Served("get_projects") /\ resp'.user.role = PROJECT_MANAGER)
         => \A d \in projects :
               (resp'.code = 200 /\ \E b \in resp'.body : b.id = d.id \/ b.id = d._id)
                 <=> (d.project_manager_id = resp'.user.id \/ Involved(resp'.user, d))]_vars

(***************************************************************************)
(* Properties of the listings and of the sub-documents.                    *)
(***************************************************************************)
ListOps ==
    {"get_projects", "get_projects_by_module", "get_projects_by_phase",
     "get_projects_available_for_phase"}

\* the listed project b is the stored project d
Listed(b, d) == b.id = d.id \/ b.id = d._id

\* C11: for a team_member or stakeholder every project listing (list,
\* by-module, by-phase, available-for-phase) returns only projects whose
\* stakeholders list the caller or whose created_by is the caller, and the
\* plain list returns all of those.
C11_MemberListsOnlyInvolvedProjects ==
    [][(now' = now /\ resp'.op \in ListOps
          /\ resp'.user.role \in {TEAM_MEMBER, STAKEHOLDER})
         => /\ \A b \in resp'.body :
                  \E d \in projects : Listed(b, d) /\ Involved(resp'.user, d)
            /\ resp'.op = "get_projects"
                 => \A d \in projects :
                       Involved(resp'.user, d) => \E b \in resp'.body : Listed(b, d)]_vars

\* the collection each per-project sub-document read returns
ReadCollection ==
    [get_project_charter              |-> "project_charters",
     get_business_case                |-> "business_cases",
     get_project_stakeholders         |-> "stakeholders",
     get_project_wbs                  |-> "wbs_tasks",
     get_project_risks_by_path        |-> "risks",
     get_project_risks                |-> "risks",
     get_project_budget               |-> "budget_items",
     get_project_timeline_tasks       |-> "timeline_tasks",
     get_project_milestones_untyped   |-> "milestones",
     get_project_milestones           |-> "milestones",
     get_project_communication_plans  |-> "communication_plans",
     get_project_quality_requirements |-> "quality_requirements",
     get_project_procurement_items    |-> "procurement_items",
     get_feasibility_study            |-> "feasibility_studies"]

\* the reads that look the project up first
CheckedReads == {"get_project_wbs", "get_project_risks_by_path", "get_project_budget"}

\* the reads that return one sub-document
SingleReads == {"get_project_charter", "get_business_case", "get_feasibility_study"}

\* the stored sub-documents of project_id an operation reads
Held(op, project_id) ==
    {d \in subdocs[ReadCollection[op]] : d.project_id = project_id}

\* C12: an executive can list and get every project, read every
\* sub-document of every project, and update and delete every project,
\* whatever the executive's relation to the project.
C12_ExecutiveReadsAndWritesEverything ==
    [][(now' = now /\ resp'.user.role = EXECUTIVE)
         => /\ resp'.op = "get_projects"
                 => /\ resp'.code = 200
                    /\ \A d \in projects : \E b \in resp'.body : Listed(b, d)
            /\ (resp'.op \in {"get_project", "update_project", "delete_project"}
                  /\ resp'.project_id \in StoredIds)
                 => resp'.code = 200
            /\ (resp'.op \in DOMAIN ReadCollection /\ resp'.project_id \in StoredIds
                  /\ Held(resp'.op, resp'.project_id) # {})
                 => /\ resp'.code = 200
                    /\ resp'.body # {}
                    /\ resp'.body \subseteq Held(resp'.op, resp'.project_id)]_vars

\* read access to a project under rules 1-3
CanRead(u, d) ==
    \/ u.role = EXECUTIVE
    \/ u.role = PROJECT_MANAGER /\ d.project_manager_id = u.id
    \/ Involved(u, d)

\* C13: a caller with no read access to project P reads no sub-document of P
\* through any sub-document GET.
C13_SubdocumentReadNeedsProjectAccess ==
    [][(now' = now /\ resp'.op \in DOMAIN ReadCollection /\ resp'.code = 200)
         => \A b \in resp'.body : \A d \in projects :
               d.id = b.project_id => CanRead(resp'.user, d)]_vars

\* the project a sub-document request names (in its body or in its path)
ParentId(r) ==
    IF "body" \in DOMAIN r.arg /\ r.op \in {"create_project_charter",
            "create_business_case", "create_stakeholder", "create_risk",
            "create_feasibility_study"}
    THEN r.arg.body.project_id
    ELSE r.project_id

\* the requests that name a parent project and have a role gate
GatedParentOps ==
    {"create_project_charter", "create_business_case", "create_feasibility_study",
     "apply_template_to_project"}

\* C15: a sub-document request that names a project that does not exist
\* gets a NotFound error whatever the caller's role: the lookup is decided
\* before the role check, so a caller who fails the role gate still gets
\* NotFound.  Stated on the requests that have both a lookup and a role gate.
C15_MissingParentIsNotFoundBeforeRoleGate ==
    [][(now' = now /\ resp'.op \in GatedParentOps /\ ParentId(resp') \notin StoredIds)
         => resp'.code = 404]_vars

\* the requests that create a sub-document
CreateOps ==
    {"create_project_charter", "create_business_case", "create_stakeholder",
     "create_risk_by_path", "create_risk", "create_budget_item",
     "create_timeline_task", "create_milestone", "create_feasibility_study"}

\* C16: a sub-document of any variant is inserted only if the project it
\* names exists at that time; otherwise the request fails and nothing is
\* inserted.
C16_SubdocumentCreatedOnlyUnderExistingProject ==
    [][/\ \A coll \in Collections : \A e \in subdocs'[coll] :
             (\A d \in subdocs[coll] : d.id # e.id)
               => \E p \in projects : p.id = e.project_id
       /\ (now' = now /\ resp'.op \in CreateOps /\ ParentId(resp') \notin StoredIds)
            => resp'.code # 200 /\ subdocs' = subdocs]_vars

\* C17: every stored sub-document's project_id is the id of a stored project.
C17_NoOrphanedSubdocument ==
    \A coll \in Collections : \A d \in subdocs[coll] :
        \E p \in projects : p.id = d.project_id

\* the store after the step
DBNext ==
    [projects |-> projects', next_oid |-> next_oid',
     subdocs |-> subdocs', templates |-> templates', next_doc |-> next_doc']

\* C18: a successful project delete removes exactly that project document
\* and changes no sub-document collection; the sub-documents of the deleted
\* project are still returned by the per-project reads that do not look the
\* project up.
C18_DeleteRemovesOnlyTheProject ==
    [][(Served("delete_project") /\ resp'.code = 200)
         => /\ projects' = {d \in projects : d.id # resp'.project_id}
            /\ Cardinality(projects') = Cardinality(projects) - 1
            /\ subdocs' = subdocs
            /\ templates' = templates
            /\ \A op \in (DOMAIN ReadCollection) \ CheckedReads :
                  LET held == Held(op, resp'.project_id)
                      out == Run(DBNext, now',
                                 ReadRequest(op, resp'.user, resp'.project_id)).r
                  IN  held # {}
                        => /\ out.code = 200
                           /\ out.body # {}
                           /\ out.body \subseteq held
                           /\ op \notin SingleReads => out.body = held]_vars

\* a project has just been deleted and sub-documents naming it are stored
C18_Witness ==
    /\ resp.op = "delete_project"
    /\ resp.code = 200
    /\ resp.project_id \notin StoredIds
    /\ \E coll \in Collections : \E d \in subdocs[coll] : d.project_id = resp.project_id

\* C19: no update changes the project_id of a stored sub-document, even
\* when the update's body names another project.
C19_ProjectIdOfSubdocumentNeverChanges ==
    [][\A coll \in Collections : \A d \in subdocs[coll] : \A e \in subdocs'[coll] :
          e.id = d.id => e.project_id = d.project_id]_vars

\* the writes of charters, business cases, templates and feasibility studies
RoleGatedOps ==
    {"create_project_charter", "update_project_charter", "create_business_case",
     "create_template", "create_feasibility_study", "update_feasibility_study",
     "apply_template_to_project"}

Ordinal == [very_low |-> 1, low |-> 2, medium |-> 3, high |-> 4, very_high |-> 5]

\* C20: in every reachable state each stored risk's risk_score is
\* ordinal(probability) x ordinal(impact) of its stored probability and
\* impact; a risk_score the caller supplies never determines it.
C20_RiskScoreIsProbabilityTimesImpact ==
    \A risk \in subdocs["risks"] :
        /\ risk.probability \in DOMAIN Ordinal
        /\ risk.impact \in DOMAIN Ordinal
        /\ risk.risk_score = Ordinal[risk.probability] * Ordinal[risk.impact]

\* a risk has just been updated to another probability or impact with a
\* body that carried a risk_score, and the stored score is not that one
C20_Witness ==
    /\ resp.op = "update_risk"
    /\ resp.code = 200
    /\ "risk_score" \in DOMAIN resp.arg.body
    /\ \E risk \in subdocs["risks"] :
          /\ risk.id = resp.arg.doc_id
          /\ risk.probability = resp.arg.body.probability
          /\ risk.impact = resp.arg.body.impact
          /\ risk.risk_score # resp.arg.body.risk_score
          /\ risk.risk_score = 20

\* C21: for all 25 pairs (p, i) of the five ordinal names the score of a
\* created risk is ordinal(p) * ordinal(i), lies in 1..25 and is symmetric:
\* score(p, i) = score(i, p); score(high, low) = score(low, high) = 8 and
\* score(high, very_high) = 20.
C21_ScoreIsSymmetricProductOfOrdinals ==
    [][((Served("create_risk") \/ Served("create_risk_by_path")) /\ resp'.code = 200)
         => \A d \in resp'.body :
               /\ d.risk_score = Ordinal[d.probability] * Ordinal[d.impact]
               /\ d.risk_score \in 1..25
               /\ d.risk_score = calculated_risk_score([probability |-> d.impact,
                                                       impact |-> d.probability])
               /\ ({d.probability, d.impact} = {"high", "low"}) => d.risk_score = 8
               /\ (d.probability = "high" /\ d.impact = "very_high")
                    => d.risk_score = 20]_vars

\* a risk has just been created with probability high and impact very_high
C21_Witness ==
    /\ resp.op \in {"create_risk", "create_risk_by_path"}
    /\ resp.code = 200
    /\ \E d \in resp.body : /\ d.probability = "high"
                            /\ d.impact = "very_high"
                            /\ d.risk_score = 20
                            /\ d \in subdocs["risks"]

\* the requests that complete with success on template t in this step
Succeeding(t) ==
    {i \in Slots : /\ inflight[i].pc # "done"
                   /\ inflight'[i].pc = "done"
                   /\ inflight'[i].code = 200
                   /\ inflight'[i].op \in {"use_template", "apply_template_to_project"}
                   /\ inflight'[i].arg.template_id = t.id}

\* C22: whatever the interleaving of use-template and apply-template
\* requests, a template's usage_count grows by one for each request that
\* completes with success against it and changes at no other step, so N
\* successful calls leave it N higher: no update is lost.
C22_UsageCountGrowsByOnePerSuccess ==
    [][\A t \in templates :
          \E t2 \in templates' :
              /\ t2.id = t.id
              /\ t2.usage_count = t.usage_count + Cardinality(Succeeding(t))]_vars

\* C22 witness: two requests on the risk log template, in flight together
\* (both had found the template before either incremented), have both
\* succeeded and its usage_count is 2
C22_Witness ==
    /\ \A i \in 1..2 : /\ inflight[i].pc = "done"
                        /\ inflight[i].code = 200
                        /\ inflight[i].arg.template_id = RiskLogTemplate
    /\ inflight[1].op = "use_template"
    /\ inflight[2].op = "apply_template_to_project"
    /\ \E t \in templates : t.id = RiskLogTemplate /\ t.usage_count = 2

RECURSIVE Registered(_)
\* usage_count times the number of sample stakeholders, summed over the
\* stakeholder register templates of tpls
Registered(tpls) ==
    IF tpls = {} THEN 0
    ELSE LET t == CHOOSE x \in tpls : TRUE
         IN  (IF t.template_type = "stakeholder_register"
              THEN t.usage_count * Len(t.sample_stakeholders) ELSE 0)
             + Registered(tpls \ {t})

\* the documents of collection coll stored for project_id in subs
DocsOf(subs, coll, project_id) == {d \in subs[coll] : d.project_id = project_id}

\* the template a served apply-template request named
AppliedTemplate == CHOOSE t \in templates : t.id = resp'.arg.template_id

\* C23: when charter (business case) templates are applied to a project one
\* after the other, starting with none stored, each successful application
\* leaves exactly one charter (business case) for the project: the first
\* inserts it, a later one keeps the stored document, under its id, and
\* inserts nothing.
C23_ReapplyingKeepsOneSingleton ==
    [][(/\ Served("apply_template_to_project")
        /\ resp'.code = 200
        /\ AppliedTemplate.template_type \in {"project_charter", "business_case"})
         => LET coll == AppliedCollection(AppliedTemplate.template_type)
                before == DocsOf(subdocs, coll, resp'.project_id)
                after == DocsOf(subdocs', coll, resp'.project_id)
            IN  /\ Cardinality(after) = 1
                /\ before # {} => {d.id : d \in after} = {d.id : d \in before}
                /\ \A c \in Collections \ {coll} : subdocs'[c] = subdocs[c]]_vars

\* C23 witness: the second charter template has just been applied with
\* success, both charter templates have been applied once, and one charter
\* is stored: the second application found the first one's document
C23_Witness ==
    /\ resp.op = "apply_template_to_project" /\ resp.code = 200
    /\ \E t \in templates : /\ t.id = resp.arg.template_id
                             /\ t.template_type = "project_charter"
                             /\ t.usage_count = 2
    /\ Cardinality(subdocs["project_charters"]) = 1
    /\ \A d \in subdocs["project_charters"] : d.project_id = resp.project_id

\* C24: applying a stakeholder register template of k sample stakeholders
\* inserts k stakeholders for the project and leaves every stored
\* stakeholder as it was, so n applications in sequence leave n*k: the
\* stored stakeholders always number the sum, over the register templates,
\* of usage_count times the number of samples.
C24_EachRegisterApplicationAddsItsSamples ==
    [][(/\ Served("apply_template_to_project")
        /\ resp'.code = 200
        /\ AppliedTemplate.template_type = "stakeholder_register")
         => LET k == Len(AppliedTemplate.sample_stakeholders)
                before == DocsOf(subdocs, "stakeholders", resp'.project_id)
                after == DocsOf(subdocs', "stakeholders", resp'.project_id)
            IN  /\ subdocs["stakeholders"] \subseteq subdocs'["stakeholders"]
                /\ Cardinality(after) = Cardinality(before) + k
                /\ resp'.detail.created_count = k
                /\ Cardinality(subdocs'["stakeholders"])
                     = Registered(templates')]_vars

\* C24 witness: the default register (two samples) has been applied twice
\* to one project, which now has four stakeholders
C24_Witness ==
    /\ resp.op = "apply_template_to_project" /\ resp.code = 200
    /\ resp.arg.template_id = DocId(5)
    /\ \E t \in templates : t.id = DocId(5) /\ t.usage_count = 2
    /\ Cardinality(DocsOf(subdocs, "stakeholders", resp.project_id)) = 4

\* C25: whatever the interleaving of registration requests, no two stored
\* users share an email and no two share a username.
C25_EmailsAndUsernamesUnique ==
    \A u, v \in users :
        u # v => u.email # v.email /\ u.username # v.username

\* C26: on both creation routes (direct create and setup wizard) a project
\* is inserted only for a caller whose role is project_manager or executive;
\* a create request by a team_member or stakeholder is refused with 403 and
\* leaves the projects as they were.
C26_ProjectCreatedOnlyByManagerOrExecutive ==
    [][(Served("create_project") \/ Served("create_project_from_wizard"))
         => IF resp'.user.role \in {PROJECT_MANAGER, EXECUTIVE}
            THEN TRUE
            ELSE resp'.code = 403 /\ projects' = projects]_vars

\* C27: for a project created through create_project, stored in planning
\* and addressed by the id the creation returned, a status request of its
\* assigned project manager for execution answers 200 and stores execution;
\* one for closure fails, reports the allowed set {execution, initiation,
\* cancelled} and leaves planning stored.
C27_CreatedPlanningProjectFollowsWorkflow ==
    [][Served("update_project_status")
         => \A d \in CreatedProjects :
               (/\ d.id = resp'.project_id
                /\ d.status = "planning"
                /\ resp'.user.id = d.project_manager_id
                /\ resp'.user.role = PROJECT_MANAGER)
                 => LET stored == {e \in projects' : e.id = d.id}
                    IN  /\ resp'.arg.status = "execution"
                          => /\ resp'.code = 200
                             /\ \A e \in stored : e.status = "execution"
                        /\ resp'.arg.status = "closure"
                          => /\ resp'.code # 200
                             /\ "allowed" \in DOMAIN resp'.detail
                             /\ Range(resp'.detail.allowed)
                                  = {"execution", "initiation", "cancelled"}
                             /\ \A e \in stored : e.status = "planning"]_vars

\* every published credential logs in, and the token of that login resolves
\* to the user that logged in
DemoLoginsResolve ==
    \A c \in Published :
        LET answer == Run(DB, now, LoginRequest(c.email, c.password)).r
        IN  /\ answer.code = 200
            /\ \A t \in answer.body :
                  LET me == Run(DB, now, MeRequest(t.access_token)).r
                  IN  /\ t.user.email = c.email
                      /\ me.code = 200
                      /\ me.body = {t.user}

\* C28: started on an empty datastore, the server completes its startup
\* initialization, and from then on each of the four credentials the
\* demo-users operation publishes logs in with success and the token that
\* login returns, presented to the current-user operation, resolves to the
\* user that logged in.
C28_DemoCredentialsLogInAfterStartup ==
    /\ <>StartupDone
    /\ [](StartupDone => Cardinality(Published) = 4 /\ DemoLoginsResolve)

\* C28 witness: after startup the stakeholder credential was used to log in
\* and the token of that login has just resolved to the stakeholder
C28_Witness ==
    /\ StartupDone
    /\ resp.op = "get_current_user_info" /\ resp.code = 200
    /\ resp.arg.token.sub = "sh"
    /\ \A u \in resp.body : u.email = "stakeholder@projecthub.com"
    /\ \E c \in Published : c.email = "stakeholder@projecthub.com"

\* the status a served status request asked for
RequestedStatus ==
    IF resp'.op = "transition_project_phase" THEN resp'.arg.new_phase
    ELSE resp'.arg.status

\* C29: a status transition that succeeds writes the status and updated_at
\* of the addressed project and nothing else: every other field of that
\* project, every other project and every other stored document is as it
\* was.
C29_TransitionWritesOnlyStatusAndUpdatedAt ==
    [][((Served("update_project_status") \/ Served("transition_project_phase"))
          /\ resp'.code = 200)
         => /\ \E d \in projects :
                  /\ resp'.project_id \in {d.id, d._id}
                  /\ projects' = (projects \ {d})
                                   \cup {[d EXCEPT !.status = RequestedStatus,
                                                    !.updated_at = now]}
            /\ subdocs' = subdocs
            /\ templates' = templates
            /\ users' = users]_vars

\* C29 witness: a sample project has been moved to another status at a
\* later time; its status and updated_at are the new ones and its budget,
\* completion, stakeholders, manager and creator are those of the sample
C29_Witness ==
    /\ resp.op = "transition_project_phase" /\ resp.code = 200
    /\ \E d \in projects, e \in init_sample_projects :
          /\ d.id = resp.project_id /\ e.id = d.id
          /\ d.status = resp.arg.new_phase /\ d.status # e.status
          /\ d.updated_at = now /\ d.updated_at # e.updated_at
          /\ [d EXCEPT !.status = e.status, !.updated_at = e.updated_at] = e

\* the ordinal the claim gives a level: its table entry, 3 for any other
\* string
OrdinalOrMedium(level) == IF level \in DOMAIN Ordinal THEN Ordinal[level] ELSE 3

\* C30: a request that creates or updates a risk of a stored project with a
\* probability or impact outside the five ordinal names does not fail: it
\* answers 200 and the risk is scored with 3 for the unrecognized operand.
C30_UnknownLevelScoresAsMedium ==
    [][(/\ \/ Served("create_risk") \/ Served("create_risk_by_path")
           \/ Served("update_risk")
        /\ resp'.project_id \in StoredIds
        /\ \/ resp'.arg.body.probability \notin RiskLevels
           \/ resp'.arg.body.impact \notin RiskLevels)
         => /\ resp'.code = 200
            /\ \A d \in resp'.body :
                  d.risk_score = OrdinalOrMedium(resp'.arg.body.probability)
                                   * OrdinalOrMedium(resp'.arg.body.impact)]_vars

\* the served apply-template request created a sub-document of its project,
\* or updated the one its template type keeps for the project
Materialized ==
    \/ \E coll \in Collections :
          \E d \in subdocs'[coll] \ subdocs[coll] : d.project_id = resp'.project_id
    \/ /\ AppliedTemplate.template_type \in {"project_charter", "business_case"}
       /\ DocsOf(subdocs, AppliedCollection(AppliedTemplate.template_type),
                 resp'.project_id) # {}

\* C31: every successful apply-template call, whatever the type of the
\* template, creates or updates at least one sub-document of the target
\* project and raises the usage_count of the template by exactly one.
C31_ApplyMaterializesAndCountsOnce ==
    [][(Served("apply_template_to_project") /\ resp'.code = 200)
         => /\ Materialized
            /\ \E t \in templates' :
                  /\ t.id = AppliedTemplate.id
                  /\ t.usage_count = AppliedTemplate.usage_count + 1]_vars

\* the previous-phase set of each target phase
CandidatePhases ==
    [initiation |-> {}, planning |-> {"initiation"}, execution |-> {"planning"},
     monitoring |-> {"execution"}, closure |-> {"monitoring", "execution"},
     completed |-> {"closure"},
     cancelled |-> {"initiation", "planning", "execution"}]

C33_AcceptanceFollowsTableNotCandidacy ==
    [][(Served("update_project_status") \/ Served("transition_project_phase"))
         => \A d \in projects :
               d.id = resp'.project_id
                 => /\ (resp'.code = 200) <=> (RequestedStatus \in Allowed(d.status))
                    /\ (<<d.status, RequestedStatus>>
                           \in {<<"monitoring", "cancelled">>, <<"planning", "initiation">>})
                         => /\ d.status \notin CandidatePhases[RequestedStatus]
                            /\ resp'.code = 200
                    /\ (<<d.status, RequestedStatus>> = <<"execution", "closure">>)
                         => /\ d.status \in CandidatePhases[RequestedStatus]
                            /\ resp'.code # 200
                            /\ projects' = projects]_vars

\* C34: a status update or a phase transition asked by the project manager
\* for a project the store does not hold is answered 404 NotFound, and the
\* store is as it was.
C34_MissingProjectIsNotFound ==
    [][(/\ Served("update_project_status") \/ Served("transition_project_phase")
        /\ resp'.user.role = "project_manager"
        /\ DOMAIN resp'.arg \in {{"status"}, {"new_phase"}}
        /\ RequestedStatus \in ProjectStatus
        /\ \A d \in projects : d.id # resp'.project_id)
         => /\ resp'.code = 404
            /\ UNCHANGED <<users, projects, subdocs, templates>>]_vars

\* the projects visible to user u: all of them for an executive, otherwise
\* those u manages, is listed in as stakeholder, or created (a team member
\* or stakeholder manages no project it did not create)
VisibleTo(u) ==
    {d \in projects :
        \/ u.role = EXECUTIVE
        \/ u.role = PROJECT_MANAGER /\ d.project_manager_id = u.id
        \/ Involved(u, d)}

\* C35: the dashboard counts over the caller's visible projects: total is
\* their number, active the number whose status is neither completed nor
\* cancelled, completed the number whose status is completed, so that
\* active + completed + visible cancelled = total.
C35_DashboardCountsVisibleProjects ==
    [][Served("get_dashboard_stats")
         => LET stats == resp'.detail
                visible == VisibleTo(resp'.user)
            IN  /\ resp'.code = 200
                /\ stats.total_projects = Cardinality(visible)
                /\ stats.active_projects =
                     Cardinality({d \in visible : d.status \notin {"completed", "cancelled"}})
                /\ stats.completed_projects =
                     Cardinality({d \in visible : d.status = "completed"})
                /\ stats.active_projects + stats.completed_projects
                     + Cardinality({d \in visible : d.status = "cancelled"})
                       = stats.total_projects]_vars

\* C35 witness: a team member has read a dashboard that counts one project,
\* a cancelled one it is involved in, out of the several stored.
C35_Witness ==
    /\ resp.op = "get_dashboard_stats"
    /\ resp.user.role = TEAM_MEMBER
    /\ resp.detail.total_projects = 1
    /\ resp.detail.active_projects = 0
    /\ \E d \in projects : d.status = "cancelled" /\ Involved(resp.user, d)
    /\ Cardinality(projects) > 1

\* what the unfiltered project list answers to user u in the current state
ListedTo(u) == Run(DB, now, Request("get_projects", u, Str(""), NoArg)).r

\* C39: the total_projects the dashboard reports to a caller is the number
\* of projects the unfiltered project list returns to the same caller in
\* the same state.
C39_DashboardTotalIsListLength ==
    [][Served("get_dashboard_stats")
         => /\ ListedTo(resp'.user).code = 200
            /\ resp'.detail.total_projects = Cardinality(ListedTo(resp'.user).body)]_vars

\* C36: a create, update or delete of a stakeholder entry or a budget item
\* succeeds iff the project the entry belongs to is stored when the request
\* is served; when it is not, the answer is 404 and nothing is stored or
\* changed.
C36_EntryWritesNeedParentProject ==
    [][(\E op \in {"create_stakeholder", "update_stakeholder",
                    "delete_stakeholder", "create_budget_item"} : Served(op))
         => /\ (resp'.code = 200) <=> (resp'.project_id \in StoredIds)
            /\ (resp'.project_id \notin StoredIds)
                 => /\ resp'.code = 404
                    /\ UNCHANGED <<users, projects, subdocs, templates>>]_vars

\* C37: every stored project names a stored user as project_manager_id and
\* as created_by; a project that appears carries the id of the user whose
\* request created it in both, and no project update, status update, phase
\* transition or template application changes either field of a project.
C37_ManagerAndCreatorAreSetOnce ==
    /\ [](\A d \in projects :
            {d.project_manager_id, d.created_by} \subseteq {u.id : u \in users})
    /\ [][\A e \in projects' :
            IF \E d \in projects : d.id = e.id
            THEN \A d \in projects :
                    d.id = e.id => /\ e.project_manager_id = d.project_manager_id
                                   /\ e.created_by = d.created_by
            ELSE /\ resp'.op = "create_project"
                 /\ e.project_manager_id = resp'.user.id
                 /\ e.created_by = resp'.user.id]_vars

\* C37 witness: an update whose body names another manager and creator has
\* succeeded on a project created by the stakeholder user, which still
\* names that user in both fields.
C37_Witness ==
    /\ resp.op = "update_project"
    /\ resp.code = 200
    /\ "project_manager_id" \in DOMAIN resp.arg
    /\ \E d \in projects :
          /\ d.id = resp.project_id
          /\ d.project_manager_id = "sh"
          /\ d.created_by = "sh"
          /\ resp.arg.project_manager_id # d.project_manager_id

\* C38: whatever the interleaving of apply-template requests of charter
\* (business case) templates on a project, once such a request has completed
\* with success the project has exactly one charter (business case): two
\* requests in flight together on a project that has none do not leave two.
C38_ConcurrentAppliesLeaveOneDocument ==
    \A i \in Slots :
        (/\ inflight[i].op = "apply_template_to_project"
         /\ inflight[i].pc = "done"
         /\ inflight[i].code = 200)
          => \A t \in templates :
                t.id = inflight[i].arg.template_id
                  => Cardinality(DocsOf(subdocs, AppliedCollection(t.template_type),
                                        inflight[i].project_id)) = 1

\* the documents of coll whose field f holds v
Holding(coll, f, v) == {d \in coll : d[f] = v}

\* each demo-user email, default-template name and sample-project name
\* occurs exactly once in the store
SeedOccursOnce(us, ps, ts) ==
    /\ \A u \in DemoUsers : Cardinality(Holding(us, "email", u.email)) = 1
    /\ \A t \in init_default_templates : Cardinality(Holding(ts, "name", t.name)) = 1
    /\ \A d \in init_sample_projects : Cardinality(Holding(ps, "name", d.name)) = 1

====
